---- MODULE Spec2Model ----
(***************************************************************************)
(* The LSP client core of codn (src/codn/utils/lsp_core.py, class          *)
(* BaseLSPClient) as a state machine.                                      *)
(*                                                                         *)
(* The client runs on one asyncio event loop.  A coroutine runs without    *)
(* interruption from one suspension to the next, so every action below is  *)
(* one such run: it starts where a task was suspended (or at a call) and   *)
(* ends where the task suspends again or finishes.  The points where the   *)
(* code really suspends are: a contended `async with self._lock`, the      *)
(* drain after a write to the child's stdin, the wait for a future, the    *)
(* reads from the child's pipes, the waits of _cleanup and the wait for    *)
(* the cancelled tasks.  An uncontended lock acquisition does not suspend. *)
(*                                                                         *)
(* The operators that model code take the whole client state as a record s *)
(* and return the record after the code has run; an action commits the     *)
(* record it ends with.                                                    *)
(***************************************************************************)
EXTENDS Integers, Sequences, FiniteSets, TLC

\* ------------------------------------------------------------------ bounds
MaxMsgId == 3        \* ids that itertools.count(1) hands out before the model stops issuing requests
MaxDocCalls == 3     \* document operations each document task issues

\* ------------------------------------------------------------- the tasks
Starter == "st"                  \* the task that calls start()
Shutdowners == {"s1", "s2"}      \* tasks that call shutdown()
Requesters == {"r1", "r2"}       \* tasks that call send_references / send_definition / send_document_symbol
DocTasks == {"d1", "d2"}         \* tasks that call send_did_open / send_did_change / send_did_close
ChildIds == <<"c1", "c2">>       \* the child processes, in the order start() spawns them
Children == {ChildIds[i] : i \in 1..Len(ChildIds)}
Loops == Children                \* one _response_loop task per spawned child
URIs == {"u1", "u2"}
Contents == {"a", "b"}
Ops == {"open", "change", "close"}

\* Requesters stop at MaxMsgId; each start() and each shutdown() may draw one more id.
MsgIds == 1..(MaxMsgId + Len(ChildIds) + Cardinality(Shutdowners))
CallTasks == {Starter} \cup Shutdowners \cup Requesters \cup DocTasks
None == "none"

VARIABLES
    state,            \* self._state
    shutdown_event,   \* self._shutdown_event.is_set()
    proc,             \* self.proc: None or the child it refers to
    nspawn,           \* children spawned so far
    child,            \* the children: [st, stdin, out], the environment's side of self.proc
    msg_id,           \* the next value of self._msg_id
    pending,          \* the keys of self._pending
    fut,              \* the future created for each message id
    lockHolder,       \* the task holding self._lock
    lockWaiters,      \* the tasks waiting for self._lock, first come first
    tasks,            \* self._tasks
    loop,             \* the _response_loop tasks: [pc, cancel, src, msg]
    inbox,            \* per child: ids of the requests it has received and not answered
    outbuf,           \* per child: the frame on its stdout not yet read by the client
    stdout,           \* the same pipe of self.proc byte by byte: the units not yet read
    sched,            \* the call of stream_requests / batch_requests and its worker tasks
    harv,             \* get_refs_clean: its work list, its done keys, the clients it has started
    watch,            \* the watch_and_sync task of run_watch.py: [on, cancel, ev]
    boot,             \* the call of get_client: its language, its files, what it has sent
    l_refs,           \* the edge set l_refs of get_refs / get_refs_clean
    call,             \* the last call of a helper function: its arguments and its outcome
    trav,             \* the call of traverse: its graph, depth, todo list, edge set and level
    open_files,       \* self.open_files
    file_versions,    \* self.file_versions (0: no entry)
    file_states,      \* self.file_states (None: no entry)
    pc,               \* where each calling task is suspended
    rid,              \* the message id of the _request a task is in
    res,              \* how a task's last call ended
    arg,              \* the arguments of a document task's call
    calls,            \* calls a document task has made
    cch,              \* the child whose pipes a task in _cleanup reads
    hist              \* history: what the claims need to remember of the run

vars == <<state, shutdown_event, proc, nspawn, child, msg_id, pending, fut,
          lockHolder, lockWaiters, tasks, loop, inbox, outbuf, stdout, sched, harv, watch, boot, l_refs, call, trav,
          open_files, file_versions, file_states, pc, rid, res, arg, calls, cch, hist>>

\* The client state as one record.
Cur ==
    [state |-> state, shutdown_event |-> shutdown_event, proc |-> proc,
     nspawn |-> nspawn, child |-> child, msg_id |-> msg_id, pending |-> pending,
     fut |-> fut, lockHolder |-> lockHolder, lockWaiters |-> lockWaiters,
     tasks |-> tasks, loop |-> loop, inbox |-> inbox, outbuf |-> outbuf,
     stdout |-> stdout, sched |-> sched, harv |-> harv, watch |-> watch,
     boot |-> boot, trav |-> trav, call |-> call, l_refs |-> l_refs,
     open_files |-> open_files, file_versions |-> file_versions,
     file_states |-> file_states, pc |-> pc, rid |-> rid, res |-> res,
     arg |-> arg, calls |-> calls, cch |-> cch, hist |-> hist]

Commit(s) ==
    /\ state' = s.state
    /\ shutdown_event' = s.shutdown_event
    /\ proc' = s.proc
    /\ nspawn' = s.nspawn
    /\ child' = s.child
    /\ msg_id' = s.msg_id
    /\ pending' = s.pending
    /\ fut' = s.fut
    /\ lockHolder' = s.lockHolder
    /\ lockWaiters' = s.lockWaiters
    /\ tasks' = s.tasks
    /\ loop' = s.loop
    /\ inbox' = s.inbox
    /\ outbuf' = s.outbuf
    /\ stdout' = s.stdout
    /\ sched' = s.sched
    /\ harv' = s.harv
    /\ watch' = s.watch
    /\ boot' = s.boot
    /\ trav' = s.trav
    /\ call' = s.call
    /\ l_refs' = s.l_refs
    /\ open_files' = s.open_files
    /\ file_versions' = s.file_versions
    /\ file_states' = s.file_states
    /\ pc' = s.pc
    /\ rid' = s.rid
    /\ res' = s.res
    /\ arg' = s.arg
    /\ calls' = s.calls
    /\ cch' = s.cch
    /\ hist' = s.hist

NoMsg ==
    [method |-> None, id |-> 0, uri |-> None, version |-> 0, text |-> None, lang |-> None]
NoArg == [op |-> None, uri |-> None, text |-> None, lang |-> None]
\* The default of the parameters content and language_id (lsp_core.py lines
\* 323-324, 400), and what read_file returns for an unknown URI.
EmptyString == ""
\* A URI with no entry in file_states.
NoFile == [content |-> None, status |-> None]
NoFrame == [id |-> 0, kind |-> None]

\* LSPClientState
STOPPED == "stopped"
STARTING == "starting"
RUNNING == "running"
STOPPING == "stopping"

\* ------------------------------------- stream_requests / batch_requests
\* The worker tasks of one call, in the order of args_list: worker i runs the
\* operation on args_list[i], a request made as the requester Workers[i].
Workers == <<"r1", "r2">>
MaxArgs == Len(Workers)
IndexOf(w) == CHOOSE i \in 1..MaxArgs : Workers[i] = w

\* What a slot of the result list holds: None, or the result of the request
\* with the given id.
NoneSlot == [ok |-> FALSE, id |-> 0]
ResultSlot(i) == [ok |-> TRUE, id |-> i]

\* No call of stream_requests or batch_requests has been made.
NoSched ==
    [mode |-> None, total |-> 0, maxc |-> 0, sem |-> 0, semq |-> <<>>,
     wpc |-> [w \in Requesters |-> None], queue |-> <<>>,
     results |-> <<>>, tres |-> [w \in Requesters |-> NoneSlot],
     completed |-> 0, pc |-> "idle", ret |-> None]

\* Semaphore.release: the value goes up and the first waiter is woken.
SemRelease(q) ==
    IF q.semq = <<>>
    THEN [q EXCEPT !.sem = @ + 1]
    ELSE [q EXCEPT !.sem = @ + 1, !.wpc[Head(q.semq)] = "woken", !.semq = Tail(@)]

\* A semaphore that lets everyone in.
SemAcquire_NoLimit(q, w) == [q EXCEPT !.wpc[w] = "running"]

\* Semaphore.acquire: taken at once if the value is positive and nobody
\* waits, else the task joins the waiters.
SemAcquire(q, w) ==
    IF q.sem > 0 /\ q.semq = <<>>
    THEN [q EXCEPT !.sem = @ - 1, !.wpc[w] = "running"]
    ELSE [q EXCEPT !.semq = Append(@, w), !.wpc[w] = "sem_wait"]

\* The operation of worker w has ended with outcome o, and the worker runs to
\* its end.  stream_requests.worker, lines 427-436: the result, or None after
\* an Exception, is put on the queue with the index.  batch_requests, lines
\* 486-491: it is the result of the task.  CancelledError is no Exception: it
\* leaves the worker through both handlers.  Leaving `async with` releases
\* the semaphore.
WorkerAfter(s, w, o) ==
    IF w \notin Requesters \/ s.sched.wpc[w] # "running" THEN s
    ELSE LET q == s.sched
             v == IF o = "result" THEN ResultSlot(s.rid[w]) ELSE NoneSlot
             q1 == IF o = "cancelled" THEN [q EXCEPT !.wpc[w] = "cancelled"]
                   ELSE IF q.mode = "stream"
                        THEN [q EXCEPT !.wpc[w] = "done",
                                       !.queue = Append(@, [index |-> IndexOf(w), val |-> v])]
                        ELSE [q EXCEPT !.wpc[w] = "done", !.tres[w] = v]
         IN  [s EXCEPT !.sched = SemRelease(q1)]

\* ------------------------------------------------------- get_refs_clean
\* The work items of the harvester, by their key (uri, line, character), in the
\* order get_all_symbols lists them.
MaxFails == 2        \* requests for one work item that fail before one succeeds
MaxResults == 6      \* entries of the results list
WorkItems == <<[key |-> "k1", name |-> "f"], [key |-> "k2", name |-> "g"],
               [key |-> "k3", name |-> "h"]>>
\* "\t".join(str(j) for j in param[:3]), lines 614 and 626: the key of an item,
\* and of the tuple send_references returns for it (its first three members
\* are the arguments it was called with, lsp_core.py line 517).
Key(item) == item.key
KeySet == {Key(WorkItems[i]) : i \in 1..Len(WorkItems)}

\* get_refs_clean has not been called.
NoHarv ==
    [pc |-> "idle", items |-> <<>>, left |-> <<>>, p |-> 0, done |-> {},
     clients |-> 0, fails |-> [k \in KeySet |-> 0], errored |-> {}, results |-> <<>>,
     shut |-> {}]

\* The task run_watch.py creates for watch_and_sync (line 54); it makes its
\* document calls as the document task d1.
Watcher == "d1"
FsEvents == {"added", "modified", "deleted"}
\* No watcher task has been created.
NoWatch == [on |-> FALSE, cancel |-> FALSE, ev |-> None]

\* No helper function has been called.
NoCall == [fn |-> None]

\* traverse has not been called.
NoTrav ==
    [pc |-> "idle", callers |-> <<>>, start |-> {}, depth |-> 0, current_depth |-> 0,
     todo |-> {},
     refs |-> {}, levels |-> 0, ret |-> <<>>]

\* get_client has not been called.
NoBoot == [pc |-> "idle", lang |-> None, files |-> <<>>, p |-> 0, sent |-> <<>>]

\* BaseLSPClient.__init__
Init ==
    /\ state = STOPPED
    /\ shutdown_event = FALSE
    /\ proc = None
    /\ nspawn = 0
    /\ child = [c \in Children |-> [st |-> "unborn", stdin |-> FALSE, out |-> FALSE]]
    /\ msg_id = 1
    /\ pending = {}
    /\ fut = [i \in MsgIds |-> None]
    /\ lockHolder = None
    /\ lockWaiters = <<>>
    /\ tasks = {}
    /\ loop = [c \in Loops |-> [pc |-> None, cancel |-> FALSE, src |-> None, msg |-> NoFrame]]
    /\ inbox = [c \in Children |-> {}]
    /\ outbuf = [c \in Children |-> NoFrame]
    /\ stdout = <<>>
    /\ sched = NoSched
    /\ harv = NoHarv
    /\ watch = NoWatch
    /\ boot = NoBoot
    /\ trav = NoTrav
    /\ call = NoCall
    /\ l_refs = {}
    /\ open_files = {}
    /\ file_versions = [u \in URIs |-> 0]
    /\ file_states = [u \in URIs |-> NoFile]
    /\ pc = [t \in CallTasks |-> "idle"]
    /\ rid = [t \in CallTasks |-> 0]
    /\ res = [t \in CallTasks |-> None]
    /\ arg = [t \in DocTasks |-> NoArg]
    /\ calls = [t \in DocTasks |-> 0]
    /\ cch = [t \in CallTasks |-> None]
    /\ hist = [entry |-> [t \in Shutdowners |-> None],
               sent |-> [t \in Shutdowners |-> {}],
               inflight |-> [t \in Shutdowners |-> {}],
               outcome |-> [i \in MsgIds |-> None],
               answer |-> [i \in MsgIds |-> None],
               wire |-> [u \in URIs |-> "closed"],
               frames |-> {},
               em |-> [t \in DocTasks |-> <<>>],
               everMax |-> [u \in URIs |-> 0],
               sinceOpen |-> [u \in URIs |-> 0]]

\* start(), lines 65-74, with a server that answers initialize: the state it
\* leaves the client in (message 1 was the initialize request).
InitRunning ==
    /\ state = RUNNING
    /\ shutdown_event = FALSE
    /\ proc = ChildIds[1]
    /\ nspawn = 1
    /\ child = [c \in Children |->
                  IF c = ChildIds[1] THEN [st |-> "alive", stdin |-> TRUE, out |-> TRUE]
                  ELSE [st |-> "unborn", stdin |-> FALSE, out |-> FALSE]]
    /\ msg_id = 2
    /\ pending = {}
    /\ fut = [i \in MsgIds |-> IF i = 1 THEN "result" ELSE None]
    /\ lockHolder = None
    /\ lockWaiters = <<>>
    /\ tasks = {ChildIds[1]}
    /\ loop = [c \in Loops |->
                 IF c = ChildIds[1]
                 THEN [pc |-> "read", cancel |-> FALSE, src |-> c, msg |-> NoFrame]
                 ELSE [pc |-> None, cancel |-> FALSE, src |-> None, msg |-> NoFrame]]
    /\ inbox = [c \in Children |-> {}]
    /\ outbuf = [c \in Children |-> NoFrame]
    /\ stdout = <<>>
    /\ sched = NoSched
    /\ harv = NoHarv
    /\ watch = NoWatch
    /\ boot = NoBoot
    /\ trav = NoTrav
    /\ call = NoCall
    /\ l_refs = {}
    /\ open_files = {}
    /\ file_versions = [u \in URIs |-> 0]
    /\ file_states = [u \in URIs |-> NoFile]
    /\ pc = [t \in CallTasks |-> "idle"]
    /\ rid = [t \in CallTasks |-> IF t = Starter THEN 1 ELSE 0]
    /\ res = [t \in CallTasks |-> IF t = Starter THEN "ok" ELSE None]
    /\ arg = [t \in DocTasks |-> NoArg]
    /\ calls = [t \in DocTasks |-> 0]
    /\ cch = [t \in CallTasks |-> None]
    /\ hist = [entry |-> [t \in Shutdowners |-> None],
               sent |-> [t \in Shutdowners |-> {}],
               inflight |-> [t \in Shutdowners |-> {}],
               outcome |-> [i \in MsgIds |-> IF i = 1 THEN "result" ELSE None],
               answer |-> [i \in MsgIds |-> IF i = 1 THEN "result" ELSE None],
               wire |-> [u \in URIs |-> "closed"],
               frames |-> {},
               em |-> [t \in DocTasks |-> <<>>],
               everMax |-> [u \in URIs |-> 0],
               sinceOpen |-> [u \in URIs |-> 0]]

\* ---------------------------------------------------------- asyncio.Lock
\* acquire() takes a free lock without suspending; otherwise the caller queues.
\* release() wakes the first waiter, and no later caller can overtake it.
LockFree(s) == s.lockHolder = None /\ s.lockWaiters = <<>>
Take(s, t) == [s EXCEPT !.lockHolder = t]
Enqueue(s, t, p) == [s EXCEPT !.lockWaiters = Append(@, t), !.pc[t] = p]
Release(s) ==
    IF s.lockWaiters = <<>>
    THEN [s EXCEPT !.lockHolder = None]
    ELSE [s EXCEPT !.lockHolder = Head(s.lockWaiters), !.lockWaiters = Tail(@)]
Waiting(s, t) == \E i \in 1..Len(s.lockWaiters) : s.lockWaiters[i] = t
\* The lock has been handed to waiter t, which has not run yet.
Granted(s, t) == s.lockHolder = t /\ ~Waiting(s, t)
Dequeue(s, t) ==
    [s EXCEPT !.lockWaiters = SelectSeq(@, LAMBDA x : x # t)]

\* The event loop runs its ready callbacks in the order they were scheduled:
\* the task that start() created (line 88) has run its first step by the time
\* start() is resumed from a wait that suspended it.
LoopHasRun(s, t) == t = Starter => \A c \in Loops : s.loop[c].pc # "ready"

\* Likewise the worker tasks of stream_requests / batch_requests (line 438):
\* all of them have run their first step before any of them, or their caller,
\* is resumed from a wait that suspended it.
WorkersHaveRun(s) == \A w \in Requesters : s.sched.wpc[w] # "new"

\* The event loop is blocked: a _response_loop is spinning without suspending.
Hung(s) == \E c \in Loops : s.loop[c].pc = "spin"


\* ------------------------------------------------------------- _send
\* The child reads what is written while it runs and its stdin is open.
PipeGood(s) == s.proc # None /\ s.child[s.proc].st = "alive" /\ s.child[s.proc].stdin

Max(a, b) == IF a > b THEN a ELSE b

\* History of the writes: what a shutdown() call has written, what a document
\* call has written, per URI the largest version written so far and since
\* the URI was last added to open_files, and per URI whether the last
\* notification written to the child for it left the document open there.
Written(h, t, m) ==
    IF t \in Shutdowners
    THEN [h EXCEPT !.sent[t] = @ \cup {m.method}]
    ELSE IF t \in DocTasks
         THEN [h EXCEPT !.em[t] = Append(@, m),
                        !.everMax[m.uri] = Max(@, m.version),
                        !.sinceOpen[m.uri] = Max(@, m.version),
                        !.wire[m.uri] = IF m.method = "textDocument/didOpen" THEN "open"
                                        ELSE IF m.method = "textDocument/didClose" THEN "closed"
                                        ELSE @]
         ELSE h

\* _send, lines 129-131: the frame is written to self.proc.stdin.  Callers have
\* checked that self.proc is set (line 126).
Write(s, t, m) ==
    LET c == s.proc
        s1 == [s EXCEPT !.hist = Written(s.hist, t, m)]
    IN  IF PipeGood(s) /\ m.id # 0
        THEN [s1 EXCEPT !.inbox[c] = @ \cup {m.id}]
        ELSE s1

\* _send, lines 132-134: drain() suspends; on a broken pipe it may raise (ok is
\* the environment's choice then), and _send turns that into LSPError.
DrainPc(s, ok, p) == IF ok \/ PipeGood(s) THEN p ELSE p \o "_x"

\* ----------------------------------------------------------- _cleanup
\* Where _cleanup returns to: start's except clause re-raises (line 78),
\* shutdown's finally sets STOPPED (lines 576-578).
CleanupReturn(s, t) ==
    IF t = Starter
    THEN [s EXCEPT !.pc[t] = "idle", !.res[t] = "LSPError"]
    ELSE [s EXCEPT !.state = STOPPED, !.pc[t] = "done", !.res[t] = "returned"]

\* _cleanup, lines 627-631: the document sets are cleared without the lock, the
\* pending table under it.
CleanupTail(s, t) ==
    LET s1 == [s EXCEPT !.open_files = {}, !.file_versions = [u \in URIs |-> 0]]
    IN  IF LockFree(s1)
        THEN CleanupReturn([s1 EXCEPT !.pending = {}], t)
        ELSE Enqueue(s1, t, "cl_lock")

\* _cleanup, lines 622-625: any exception ends the try; finally drops the handle.
CleanupFinally(s, t) == CleanupTail([s EXCEPT !.proc = None], t)

\* _cleanup, lines 604-612: read stdout and stderr to EOF.  self.proc is read
\* again here; if a concurrent _cleanup has set it to None the attribute access
\* raises and line 622 catches it.
CleanupPipes(s, t) ==
    IF s.proc = None
    THEN CleanupFinally(s, t)
    ELSE [s EXCEPT !.cch[t] = s.proc, !.pc[t] = "cl_out"]

\* _cleanup, lines 615-618: terminate a child whose exit code is not set.
CleanupTerminate(s, t) ==
    IF s.proc = None
    THEN CleanupFinally(s, t)
    ELSE IF s.child[s.proc].st = "alive"
         THEN [s EXCEPT !.cch[t] = s.proc, !.pc[t] = "cl_wait"]
         ELSE CleanupFinally(s, t)

\* _cleanup, lines 597-602: close stdin and wait for it to close.
Cleanup(s, t) ==
    IF s.proc = None
    THEN CleanupTail(s, t)
    ELSE IF s.child[s.proc].stdin
         THEN [s EXCEPT !.child[s.proc].stdin = FALSE, !.pc[t] = "cl_stdin"]
         ELSE CleanupPipes(s, t)

\* ----------------------------------------------------------- shutdown
\* _cancel_tasks cancelling the response loops only, whatever else self._tasks
\* holds.
SdCancelTasks_LoopsOnly(s, t) ==
    IF s.tasks = {}
    THEN Cleanup(s, t)
    ELSE [s EXCEPT !.loop = [c \in Loops |->
                                IF c \in s.tasks /\ s.loop[c].pc # "done"
                                THEN [s.loop[c] EXCEPT !.cancel = TRUE]
                                ELSE s.loop[c]],
                   !.pc[t] = "sd_gather"]

\* ----------------------------------------------------------- shutdown
\* _cancel_tasks, lines 580-591: cancel every task of self._tasks and wait for
\* them; with no task, go on to _cleanup (shutdown line 573).
SdCancelTasks(s, t) ==
    IF s.tasks = {}
    THEN Cleanup(s, t)
    ELSE [s EXCEPT !.loop = [c \in Loops |->
                                IF c \in s.tasks /\ s.loop[c].pc # "done"
                                THEN [s.loop[c] EXCEPT !.cancel = TRUE]
                                ELSE s.loop[c]],
                   !.watch.cancel = IF Watcher \in s.tasks THEN TRUE ELSE @,
                   !.pc[t] = "sd_gather"]

\* shutdown, lines 565-568: the exit notification; _notify lets "exit" pass in
\* every state, and a failure of the send is logged.
SdExit(s, t) ==
    IF s.proc = None
    THEN SdCancelTasks(s, t)
    ELSE [Write(s, t, [NoMsg EXCEPT !.method = "exit"]) EXCEPT !.pc[t] = "sd_drain"]

\* shutdown, lines 561-564: the shutdown request has ended.  An LSPError or the
\* timeout is logged; a CancelledError is no Exception: it skips both handlers,
\* the finally sets STOPPED and shutdown raises it.
SdAfterRequest(s, t, o) ==
    IF o = "cancelled"
    THEN [s EXCEPT !.state = STOPPED, !.pc[t] = "done", !.res[t] = "cancelled"]
    ELSE SdExit(s, t)

\* shutdown, lines 551-555: under the lock, cancel every future not done and
\* clear the table.
SdCancelAll(s) ==
    [s EXCEPT !.fut = [i \in DOMAIN s.fut |->
                          IF i \in s.pending /\ s.fut[i] = "pending"
                          THEN "cancelled" ELSE s.fut[i]],
              !.pending = {}]

\* -------------------------------------------------------------- start
\* start, lines 75-78: on an Exception, STOPPED, then _cleanup, then LSPError.
StartFail(s) == Cleanup([s EXCEPT !.state = STOPPED], Starter)

\* _initialize line 123 and start lines 73-78, once the initialize request has
\* ended with outcome o.  A CancelledError passes start's except Exception.
StartAfterInit(s, o, ok) ==
    IF o = "result"
    THEN IF s.proc = None
         THEN StartFail(s)
         ELSE [Write(s, Starter, [NoMsg EXCEPT !.method = "initialized"])
                 EXCEPT !.pc[Starter] = DrainPc(s, ok, "st_drain")]
    ELSE IF o = "cancelled"
         THEN [s EXCEPT !.pc[Starter] = "idle", !.res[Starter] = "cancelled"]
         ELSE StartFail(s)

\* ----------------------------------------------------------- _request
Method(t) ==
    IF t = Starter THEN "initialize"
    ELSE IF t \in Shutdowners THEN "shutdown"
    ELSE "textDocument/references"

\* The caller of _request gets outcome o.
ReqReturn(s, t, o, ok) ==
    IF t = Starter THEN StartAfterInit(s, o, ok)
    ELSE IF t \in Shutdowners THEN SdAfterRequest(s, t, o)
    ELSE WorkerAfter([s EXCEPT !.pc[t] = "idle", !.res[t] = o], t, o)

\* _request without the pop of its finally clause.
ReqFinally_NoPop(s, t, o, ok) ==
    ReqReturn([s EXCEPT !.hist.outcome[s.rid[t]] = o], t, o, ok)

\* _request, lines 167-169: the finally clause pops the entry under the lock.
ReqFinally(s, t, o, ok) ==
    IF LockFree(s)
    THEN ReqReturn([s EXCEPT !.pending = @ \ {s.rid[t]},
                             !.hist.outcome[s.rid[t]] = o], t, o, ok)
    ELSE Enqueue([s EXCEPT !.res[t] = o], t, "rq_fin")

\* _request, lines 150-153, and _send lines 126-127.
ReqSend(s, t, ok) ==
    IF s.proc = None
    THEN ReqFinally(s, t, "send_error", ok)
    ELSE [Write(s, t, [NoMsg EXCEPT !.method = Method(t), !.id = s.rid[t]])
            EXCEPT !.pc[t] = DrainPc(s, ok, "rq_drain")]

\* _request, line 148.
ReqRegister(s, t) == [s EXCEPT !.pending = @ \cup {s.rid[t]}]

\* _request without the state check of lines 141-142.
Request_NoStateCheck(s, t, ok) ==
    LET id == s.msg_id
        s1 == [s EXCEPT !.msg_id = @ + 1, !.fut[id] = "pending", !.rid[t] = id]
    IN  IF LockFree(s1)
        THEN ReqSend(ReqRegister(s1, t), t, ok)
        ELSE Enqueue(s1, t, "rq_lock")

\* _request, lines 141-153: the state check, a fresh id and future, the
\* registration under the lock, the send.
Request(s, t, ok) ==
    IF s.state # RUNNING /\ Method(t) # "initialize"
    THEN ReqReturn(s, t, "state_error", ok)
    ELSE LET id == s.msg_id
             s1 == [s EXCEPT !.msg_id = @ + 1, !.fut[id] = "pending", !.rid[t] = id]
         IN  IF LockFree(s1)
             THEN ReqSend(ReqRegister(s1, t), t, ok)
             ELSE Enqueue(s1, t, "rq_lock")

\* _request, lines 154-166: the wait for the future has ended.  A message
\* without an "error" member gives result.get("result"), which is None for a
\* message that is no response.  On a timeout wait_for cancels the future and
\* line 161 pops the entry.
ReqWoken(s, t, ok) ==
    LET id == s.rid[t] IN
    CASE s.fut[id] \in {"result", "request"} -> ReqFinally(s, t, "result", ok)
      [] s.fut[id] = "error" -> ReqFinally(s, t, "rpc_error", ok)
      [] s.fut[id] = "cancelled" -> ReqFinally(s, t, "cancelled", ok)
      [] OTHER -> ReqFinally([s EXCEPT !.fut[id] = "cancelled", !.pending = @ \ {id}],
                             t, "timeout", ok)

\* shutdown, lines 557-570, after the futures were cancelled: the handshake is
\* attempted only if the state is neither STOPPING nor STOPPED.
SdAfterCancel(s, t, ok) ==
    IF s.proc # None /\ s.state \notin {STOPPING, STOPPED}
    THEN Request(s, t, ok)
    ELSE SdCancelTasks(s, t)

\* shutdown, lines 545-555.
SdBegin(s, t, ok) ==
    LET s1 == [s EXCEPT !.state = STOPPING, !.shutdown_event = TRUE,
                        !.hist.entry[t] = IF s.proc # None /\ s.child[s.proc].st = "alive"
                                          THEN s.state ELSE "noproc",
                        !.hist.inflight[t] = {s.rid[r] : r \in {q \in Requesters :
                                                 s.pc[q] = "rq_wait" /\ s.fut[s.rid[q]] = "pending"}}]
    IN  IF LockFree(s1)
        THEN SdAfterCancel(SdCancelAll(s1), t, ok)
        ELSE Enqueue(s1, t, "sd_lock")


\* ------------------------------------------------- _manage_file_state
\* The call returns (o = "ok") or raises.
DocEnd(s, t, o) == [s EXCEPT !.pc[t] = "idle", !.res[t] = o]

\* An exception inside `async with self._lock` releases the lock on its way out.
DocRaise(s, t) == DocEnd(Release(s), t, "LSPError")

\* _notify, lines 171-175, for a textDocument notification, then _send.
DocNotify(s, t, m, ok) ==
    IF s.state \notin {RUNNING, STARTING}
    THEN DocRaise(s, t)
    ELSE IF s.proc = None
         THEN DocRaise(s, t)
         ELSE [Write(s, t, m) EXCEPT !.pc[t] = DrainPc(s, ok, "dc_drain")]

DidOpen(u, v, c, l) ==
    [NoMsg EXCEPT !.method = "textDocument/didOpen", !.uri = u, !.version = v, !.text = c,
                  !.lang = l]
DidChange(u, v, c) == [NoMsg EXCEPT !.method = "textDocument/didChange", !.uri = u, !.version = v, !.text = c]
DidClose(u) == [NoMsg EXCEPT !.method = "textDocument/didClose", !.uri = u]

\* Action "open" without the branch of lines 334-346 for a URI already open.
DocOpen_AlwaysDidOpen(s, t, ok) ==
    LET u == s.arg[t].uri
        c == s.arg[t].text
        s1 == [s EXCEPT !.file_states[u] = [content |-> c, status |-> "open"]]
    IN  DocNotify([s1 EXCEPT !.open_files = @ \cup {u}, !.file_versions[u] = 1,
                             !.hist.sinceOpen[u] = 0],
                  t, DidOpen(u, 1, c, s.arg[t].lang), ok)

\* _manage_file_state, lines 328-359: action "open", the lock held.
DocOpen(s, t, ok) ==
    LET u == s.arg[t].uri
        c == s.arg[t].text
        s1 == [s EXCEPT !.file_states[u] = [content |-> c, status |-> "open"]]
    IN  IF u \in s.open_files
        THEN LET v == s.file_versions[u] + 1
             IN  DocNotify([s1 EXCEPT !.file_versions[u] = v], t, DidChange(u, v, c), ok)
        ELSE DocNotify([s1 EXCEPT !.open_files = @ \cup {u}, !.file_versions[u] = 1,
                                  !.hist.sinceOpen[u] = 0],
                       t, DidOpen(u, 1, c, s.arg[t].lang), ok)

\* Action "change" without the increment of line 369.
DocChange_SameVersion(s, t, ok) ==
    LET u == s.arg[t].uri
        c == s.arg[t].text
        s1 == [s EXCEPT !.file_states[u] = [content |-> c, status |-> "change"]]
    IN  IF u \notin s.open_files
        THEN Enqueue(s1, t, "dc_relock")
        ELSE DocNotify(s1, t, DidChange(u, s.file_versions[u], c), ok)

\* _manage_file_state, lines 360-379: action "change", the lock held.  For a URI
\* that is not open, line 367 calls _manage_file_state again, which waits for
\* the lock its caller holds.
DocChange(s, t, ok) ==
    LET u == s.arg[t].uri
        c == s.arg[t].text
        s1 == [s EXCEPT !.file_states[u] = [content |-> c, status |-> "change"]]
    IN  IF u \notin s.open_files
        THEN Enqueue(s1, t, "dc_relock")
        ELSE LET v == s.file_versions[u] + 1
             IN  DocNotify([s1 EXCEPT !.file_versions[u] = v], t, DidChange(u, v, c), ok)

\* Action "close" that sends before it removes the URI (lines 382-383 moved
\* after the send).
DocClose_SendsFirst(s, t, ok) ==
    LET u == s.arg[t].uri
    IN  IF u \in s.open_files
        THEN DocNotify(s, t, DidClose(u), ok)
        ELSE DocEnd(Release(s), t, "ok")

\* Action "close" without the test of line 381.
DocClose_NoGuard(s, t, ok) ==
    LET u == s.arg[t].uri
    IN  DocNotify([s EXCEPT !.open_files = @ \ {u}, !.file_versions[u] = 0],
                  t, DidClose(u), ok)

\* _manage_file_state, lines 380-387: action "close", the lock held.
DocClose(s, t, ok) ==
    LET u == s.arg[t].uri
    IN  IF u \in s.open_files
        THEN DocNotify([s EXCEPT !.open_files = @ \ {u}, !.file_versions[u] = 0],
                       t, DidClose(u), ok)
        ELSE DocEnd(Release(s), t, "ok")

\* _manage_file_state, the body under the lock.
DocCrit(s, t, ok) ==
    CASE s.arg[t].op = "open" -> DocOpen(s, t, ok)
      [] s.arg[t].op = "change" -> DocChange(s, t, ok)
      [] OTHER -> DocClose(s, t, ok)

\* ------------------------------------------------------ _response_loop
\* The while condition, lines 179-184.
LoopCond(s) == s.proc # None /\ ~s.shutdown_event /\ s.child[s.proc].st = "alive"

\* The task is done; its done callback discards it from self._tasks (line 90).
LoopDone(s, c) == [s EXCEPT !.loop[c].pc = "done", !.tasks = @ \ {c}]

Eof(s, c) == s.outbuf[c] = NoFrame /\ ~s.child[c].out

\* One pass of the while loop up to the read of _read_line (line 234), which is
\* made on self.proc.stdout as it is now.  At EOF read() returns b"" without
\* suspending, _read_headers returns {} and line 194 continues: while the
\* condition holds the loop spins and never gives the event loop back.
LoopNext(s, c) ==
    IF ~LoopCond(s)
    THEN LoopDone(s, c)
    ELSE IF Eof(s, s.proc)
         THEN [s EXCEPT !.loop[c].pc = "spin"]
         ELSE [s EXCEPT !.loop[c].pc = "read", !.loop[c].src = s.proc]

\* _handle_message completing the oldest pending future, whatever the id of
\* the message.
HandleResponse_Oldest(s, f) ==
    LET P == {j \in s.pending : s.fut[j] = "pending"}
    IN  IF P # {}
        THEN [s EXCEPT !.fut[CHOOSE j \in P : \A k \in P : j <= k] = f.kind]
        ELSE s

\* _handle_message, lines 272-277, the lock held: complete the pending future.
HandleResponse(s, f) ==
    IF f.id \in s.pending /\ s.fut[f.id] = "pending"
    THEN [s EXCEPT !.fut[f.id] = f.kind]
    ELSE s


\* =============================================================== actions
\* ------------------------------------------------------------- start()
\* start, lines 65-71, up to the wait for the child to be spawned.
StartCall(maxSpawn) ==
    /\ ~Hung(Cur)
    /\ pc[Starter] = "idle"
    /\ state = STOPPED => nspawn < maxSpawn
    /\ Commit(IF state # STOPPED
              THEN [Cur EXCEPT !.res[Starter] = "state_error"]
              ELSE [Cur EXCEPT !.state = STARTING, !.pc[Starter] = "st_spawn",
                               !.res[Starter] = None])

\* _start_subprocess, lines 81-94: the spawn fails, or the child runs, the
\* response loop task is created, and _initialize sends its request.
StartSpawned ==
    /\ ~Hung(Cur)
    /\ pc[Starter] = "st_spawn"
    /\ \E spawned, ok \in BOOLEAN :
          Commit(IF ~spawned
                 THEN StartFail(Cur)
                 ELSE LET c == ChildIds[nspawn + 1]
                      IN  Request([Cur EXCEPT !.nspawn = @ + 1, !.proc = c,
                                              !.child[c] = [st |-> "alive", stdin |-> TRUE,
                                                            out |-> TRUE],
                                              !.tasks = @ \cup {c},
                                              !.loop[c].pc = "ready",
                                              !.hist.wire = [u \in URIs |-> "closed"]],
                                  Starter, ok))

\* _initialize line 123 has been sent: start line 73, or lines 75-78.
StartDrained ==
    /\ ~Hung(Cur)
    /\ pc[Starter] \in {"st_drain", "st_drain_x"}
    /\ Commit(IF pc[Starter] = "st_drain"
              THEN [Cur EXCEPT !.state = RUNNING, !.pc[Starter] = "idle", !.res[Starter] = "ok"]
              ELSE StartFail(Cur))

\* ----------------------------------------------------------- requests
\* send_references, send_definition, send_document_symbol: a call of _request.
ReqCall(t) ==
    /\ ~Hung(Cur)
    /\ pc[t] = "idle"
    /\ msg_id <= MaxMsgId
    /\ t = "r2" => (pc["r1"] # "idle" \/ res["r1"] # None)
    /\ \E ok \in BOOLEAN : Commit(Request([Cur EXCEPT !.res[t] = None], t, ok))

\* _request, line 148, after a wait for the lock.
ReqLocked(t) ==
    /\ ~Hung(Cur)
    /\ pc[t] = "rq_lock"
    /\ Granted(Cur, t)
    /\ \E ok \in BOOLEAN : Commit(ReqSend(Release(ReqRegister(Cur, t)), t, ok))

\* _send has drained (or raised): _request line 154.  wait_for does not suspend
\* on a future that is done.
ReqDrained(t) ==
    /\ ~Hung(Cur)
    /\ pc[t] \in {"rq_drain", "rq_drain_x"}
    /\ \E ok \in BOOLEAN :
          Commit(IF pc[t] = "rq_drain_x"
                 THEN ReqFinally(Cur, t, "send_error", ok)
                 ELSE IF fut[rid[t]] # "pending"
                      THEN ReqWoken(Cur, t, ok)
                      ELSE [Cur EXCEPT !.pc[t] = "rq_wait"])

\* The wait of line 154 ends: the future is done, or the timeout expires.
ReqWake(t) ==
    /\ ~Hung(Cur)
    /\ LoopHasRun(Cur, t)
    /\ WorkersHaveRun(Cur)
    /\ pc[t] = "rq_wait"
    /\ \E ok \in BOOLEAN : Commit(ReqWoken(Cur, t, ok))

\* _request, line 169, after a wait for the lock.
ReqFin(t) ==
    /\ ~Hung(Cur)
    /\ LoopHasRun(Cur, t)
    /\ WorkersHaveRun(Cur)
    /\ pc[t] = "rq_fin"
    /\ Granted(Cur, t)
    /\ \E ok \in BOOLEAN :
          Commit(ReqReturn(Release([Cur EXCEPT !.pending = @ \ {rid[t]},
                                               !.hist.outcome[rid[t]] = res[t]]),
                           t, res[t], ok))

\* ---------------------------------------------------------- shutdown()
\* shutdown, lines 540-543: the early return, after waiting for the event if
\* the state is STOPPING.
ShutdownEarly(s, t) ==
    IF s.state = STOPPING /\ ~s.shutdown_event
    THEN [s EXCEPT !.pc[t] = "sd_event", !.hist.entry[t] = s.state]
    ELSE [s EXCEPT !.pc[t] = "done", !.res[t] = "returned",
                   !.hist.entry[t] = IF s.pc[t] = "idle" THEN s.state ELSE @]

ShutdownCall(t) ==
    /\ ~Hung(Cur)
    /\ pc[t] \in {"idle", "sd_event"}
    /\ pc[t] = "sd_event" => shutdown_event
    /\ t = "s2" => pc["s1"] # "idle"
    /\ \E ok \in BOOLEAN :
          Commit(IF pc[t] = "sd_event" \/ state \in {STOPPING, STOPPED}
                 THEN ShutdownEarly(Cur, t)
                 ELSE SdBegin(Cur, t, ok))

\* shutdown, lines 551-555, after a wait for the lock.
SdLocked(t) ==
    /\ ~Hung(Cur)
    /\ pc[t] = "sd_lock"
    /\ Granted(Cur, t)
    /\ \E ok \in BOOLEAN : Commit(SdAfterCancel(Release(SdCancelAll(Cur)), t, ok))

\* shutdown, line 562: wait_for's 5 s expire while the shutdown request waits
\* for the lock (before line 148, or in its finally clause): the request is
\* cancelled where it waits, and the TimeoutError is logged (line 563).
SdHandshakeTimeout(t) ==
    /\ ~Hung(Cur)
    /\ pc[t] \in {"rq_lock", "rq_fin"}
    /\ Commit(SdExit(IF Granted(Cur, t) THEN Release(Cur) ELSE Dequeue(Cur, t), t))

\* shutdown, line 566 has drained or failed: line 572.
SdDrained(t) ==
    /\ ~Hung(Cur)
    /\ pc[t] = "sd_drain"
    /\ Commit(SdCancelTasks(Cur, t))

\* _cancel_tasks, lines 587-595: the cancelled tasks are done; then _cleanup.
SdGathered(t) ==
    /\ ~Hung(Cur)
    /\ pc[t] = "sd_gather"
    /\ \A c \in Loops : loop[c].cancel => loop[c].pc = "done"
    /\ watch.cancel => pc[Watcher] = "ended"
    /\ Commit(Cleanup([Cur EXCEPT !.tasks = {}], t))

\* ----------------------------------------------------------- _cleanup
\* _cleanup, line 602: stdin is closed.
ClStdinClosed(t) ==
    /\ ~Hung(Cur)
    /\ LoopHasRun(Cur, t)
    /\ pc[t] = "cl_stdin"
    /\ Commit(CleanupPipes(Cur, t))

\* _cleanup, line 608: stdout and stderr are at EOF.
ClPipesEof(t) ==
    /\ ~Hung(Cur)
    /\ LoopHasRun(Cur, t)
    /\ pc[t] = "cl_out"
    /\ ~child[cch[t]].out
    /\ Commit(CleanupTerminate(Cur, t))

\* _cleanup, lines 618 and 621: the child has exited.
ClWaited(t) ==
    /\ ~Hung(Cur)
    /\ LoopHasRun(Cur, t)
    /\ pc[t] \in {"cl_wait", "cl_kill"}
    /\ child[cch[t]].st = "exited"
    /\ Commit(CleanupFinally(Cur, t))

\* _cleanup, lines 619-621: 5 s after terminate() the child still runs: kill.
ClWaitTimeout(t) ==
    /\ ~Hung(Cur)
    /\ LoopHasRun(Cur, t)
    /\ pc[t] = "cl_wait"
    /\ child[cch[t]].st = "alive"
    /\ Commit(IF proc = None
              THEN CleanupFinally(Cur, t)
              ELSE [Cur EXCEPT !.cch[t] = proc, !.pc[t] = "cl_kill"])

\* _cleanup, lines 630-631, after a wait for the lock.
ClLocked(t) ==
    /\ ~Hung(Cur)
    /\ LoopHasRun(Cur, t)
    /\ pc[t] = "cl_lock"
    /\ Granted(Cur, t)
    /\ Commit(CleanupReturn(Release([Cur EXCEPT !.pending = {}]), t))

\* -------------------------------------------- document state operations
\* send_did_open, send_did_change, send_did_close: _manage_file_state up to
\* its first suspension.
DocStartLang(s0, t, op, u, c, l, ok) ==
    LET s == [s0 EXCEPT !.arg[t] = [op |-> op, uri |-> u, text |-> c, lang |-> l],
                        !.calls[t] = @ + 1, !.res[t] = None,
                        !.hist.em[t] = <<>>]
    IN  IF LockFree(s) THEN DocCrit(Take(s, t), t, ok)
        ELSE Enqueue(s, t, "dc_lock")

\* The same without a language id: send_did_open(uri, content),
\* send_did_change, send_did_close.
DocStart(s0, t, op, u, c, ok) == DocStartLang(s0, t, op, u, c, EmptyString, ok)

DocCall(t, op, u, c) ==
    /\ ~Hung(Cur)
    /\ pc[t] = "idle"
    /\ calls[t] < MaxDocCalls
    /\ t = "d2" => calls["d1"] > 0
    /\ op = "close" <=> c = None
    /\ \E ok \in BOOLEAN : Commit(DocStart(Cur, t, op, u, c, ok))

\* _manage_file_state, line 327, after a wait for the lock: the call itself,
\* or the call of line 367 with action "open".
DocLocked(t) ==
    /\ ~Hung(Cur)
    /\ ~(t = Watcher /\ watch.cancel)
    /\ pc[t] \in {"dc_lock", "dc_relock"}
    /\ Granted(Cur, t)
    /\ \E ok \in BOOLEAN :
          Commit(IF pc[t] = "dc_lock" THEN DocCrit(Cur, t, ok) ELSE DocOpen(Cur, t, ok))

\* The notification has drained (or _send raised): the lock is released.
DocDrained(t) ==
    /\ ~Hung(Cur)
    /\ ~(t = Watcher /\ watch.cancel)
    /\ pc[t] \in {"dc_drain", "dc_drain_x"}
    /\ Commit(DocEnd(Release(Cur), t, IF pc[t] = "dc_drain" THEN "ok" ELSE "LSPError"))

\* ------------------------------------------------------ _response_loop
\* The task runs for the first time.
LoopStep(c) ==
    /\ ~Hung(Cur)
    /\ loop[c].pc = "ready"
    /\ ~loop[c].cancel
    /\ Commit(LoopNext(Cur, c))

\* The read returns: a frame (lines 192-199, _handle_message) or EOF.
LoopRead(c) ==
    /\ ~Hung(Cur)
    /\ loop[c].pc = "read"
    /\ ~loop[c].cancel
    /\ LET src == loop[c].src
           f == outbuf[src]
       IN  /\ f # NoFrame \/ Eof(Cur, src)
           /\ Commit(IF f = NoFrame
                     THEN LoopNext(Cur, c)
                     ELSE LET s == [Cur EXCEPT !.outbuf[src] = NoFrame]
                          IN  IF LockFree(s)
                              THEN LoopNext(HandleResponse(s, f), c)
                              ELSE [s EXCEPT !.lockWaiters = Append(@, c),
                                             !.loop[c].pc = "lock", !.loop[c].msg = f])

\* _handle_message, line 273, after a wait for the lock.
LoopLocked(c) ==
    /\ ~Hung(Cur)
    /\ loop[c].pc = "lock"
    /\ ~loop[c].cancel
    /\ Granted(Cur, c)
    /\ Commit(LoopNext(Release(HandleResponse(Cur, loop[c].msg)), c))

\* A cancelled task gets CancelledError where it is suspended (lines 200-201,
\* 206-207); a wait for the lock is abandoned.
LoopCancelled(c) ==
    /\ ~Hung(Cur)
    /\ loop[c].cancel
    /\ loop[c].pc \in {"ready", "read", "lock"}
    /\ Commit(LoopDone(IF loop[c].pc # "lock" THEN Cur
                       ELSE IF Granted(Cur, c) THEN Release(Cur)
                       ELSE Dequeue(Cur, c), c))

\* ----------------------------------------------------- the environment
\* The server answers a request it has received, with a result or an error.
ServerRespond(c, i, k) ==
    /\ child[c].st = "alive"
    /\ child[c].out
    /\ i \in inbox[c]
    /\ outbuf[c] = NoFrame
    /\ Commit([Cur EXCEPT !.inbox[c] = @ \ {i}, !.outbuf[c] = [id |-> i, kind |-> k],
                           !.hist.answer[i] = k])

\* The server sends a request of its own: a frame with an id and a method.
ServerRequest(c, i) ==
    /\ child[c].st = "alive"
    /\ child[c].out
    /\ outbuf[c] = NoFrame
    /\ Commit([Cur EXCEPT !.outbuf[c] = [id |-> i, kind |-> "request"]])

\* The child's exit code becomes known to the client.
ChildExit(c) ==
    /\ child[c].st = "alive"
    /\ Commit([Cur EXCEPT !.child[c].st = "exited"])

\* The child's stdout and stderr reach EOF.
ChildEof(c) ==
    /\ child[c].st # "unborn"
    /\ child[c].out
    /\ Commit([Cur EXCEPT !.child[c].out = FALSE])

\* ------------------------------------------------- next-state relations
\* start() and what it runs.
StartActions(maxSpawn) ==
    \/ StartCall(maxSpawn)
    \/ StartSpawned
    \/ StartDrained
    \/ \E c \in Loops : LoopStep(c)
    \/ ReqDrained(Starter)
    \/ ReqWake(Starter)
    \/ ClStdinClosed(Starter)
    \/ ClPipesEof(Starter)
    \/ ClWaited(Starter)
    \/ ClWaitTimeout(Starter)

\* shutdown() by the tasks SS.
ShutdownActions(SS) ==
    \E t \in SS :
        \/ ShutdownCall(t)
        \/ SdGathered(t)
        \/ ClStdinClosed(t)
        \/ ClPipesEof(t)
        \/ ClWaited(t)
        \/ ClWaitTimeout(t)

\* Requests by the tasks RS.
RequestActions(RS) ==
    \E t \in RS : ReqCall(t) \/ ReqDrained(t) \/ ReqWake(t)

\* Document operations by the tasks DS on the URIs US with the contents CS.
DocActions(DS, OS, US, CS) ==
    \E t \in DS :
        \/ \E op \in OS, u \in US, c \in CS \cup {None} : DocCall(t, op, u, c)
        \/ DocLocked(t)
        \/ DocDrained(t)

\* The response loops and the environment.
LoopActions ==
    \E c \in Loops : LoopRead(c) \/ LoopCancelled(c)

ServerActions ==
    \E c \in Children, i \in MsgIds, k \in {"result", "error"} : ServerRespond(c, i, k)

EnvActions ==
    \E c \in Children : ChildExit(c) \/ ChildEof(c)

\* The steps that follow a wait for the lock.  Only _manage_file_state keeps
\* the lock across a suspension, so they need a document task to happen.
LockedActions(RS, SS) ==
    \/ \E t \in RS : ReqLocked(t) \/ ReqFin(t) \/ \E c \in Loops : LoopLocked(c)
    \/ \E t \in SS : SdLocked(t) \/ ClLocked(t)

\* A client from its construction, without document operations: start(), two
\* callers of shutdown(), one requester.
Next ==
    \/ StartActions(1)
    \/ ShutdownActions({"s1", "s2"})
    \/ RequestActions({"r1"})
    \/ LoopActions
    \/ ServerActions
    \/ EnvActions

Spec == Init /\ [][Next]_vars

\* A running client: a requester, a caller of shutdown(), and a document task
\* that makes the lock contended.
NextReq ==
    \/ ShutdownActions({"s1"})
    \/ RequestActions({"r1"})
    \/ DocActions({"d1"}, {"open"}, {"u1"}, {"a"})
    \/ LockedActions({"r1"}, {"s1"})
    \/ LoopActions
    \/ ServerActions
    \/ EnvActions

SpecReq == InitRunning /\ [][NextReq]_vars

\* A client, fresh or running, and two document tasks.
NextDoc ==
    \/ DocActions({"d1", "d2"}, Ops, {"u1"}, Contents)
    \/ \E c \in Loops : LoopRead(c)
    \/ EnvActions

SpecDoc == (Init \/ InitRunning) /\ [][NextDoc]_vars

\* A running client, a document task and a caller of shutdown().  The event
\* loop runs every task that is ready, and every timeout expires; nothing is
\* assumed of the server.
NextStop ==
    \/ ShutdownActions({"s1"})
    \/ DocActions({"d1"}, Ops, {"u1"}, {"a"})
    \/ \E t \in {"s1"} : SdLocked(t) \/ ClLocked(t)
    \/ LoopActions
    \/ EnvActions

ClientStep ==
    \/ ShutdownActions({"s1"})
    \/ \E t \in {"d1"} : DocLocked(t) \/ DocDrained(t)
    \/ \E t \in {"s1"} : SdLocked(t) \/ ClLocked(t)
    \/ LoopActions

FairSpec == InitRunning /\ [][NextStop]_vars /\ WF_vars(ClientStep)

\* read_file, lines 389-394: the cached content, the empty string if there is none.
read_file(fs, u) == IF fs[u] # NoFile THEN fs[u].content ELSE EmptyString

\* A client from its construction with a document task: start() and document
\* operations, before, during and after the start.
NextBoot ==
    \/ StartActions(1)
    \/ DocActions({"d1"}, Ops, {"u1"}, {"a"})
    \/ ReqFin(Starter) \/ ClLocked(Starter)
    \/ \E c \in Loops : LoopRead(c) \/ LoopLocked(c)
    \/ ServerActions
    \/ EnvActions

SpecBoot == Init /\ [][NextBoot]_vars

\* ===================================================== the properties
\* A call of shutdown() returns in this step.
ShutdownReturns(t) == pc[t] # "done" /\ pc'[t] = "done"

\* A call of _request by a requester returns or raises in this step.
RequestEnds(t) == pc[t] # "idle" /\ pc'[t] = "idle"

\* The body of _manage_file_state under the lock runs in this step for task t.
CritStep(t) ==
    \/ pc[t] = "idle" /\ calls'[t] = calls[t] + 1 /\ pc'[t] # "dc_lock"
    \/ pc[t] = "dc_lock" /\ pc'[t] # "dc_lock"

\* Task t writes a notification in this step.
Emits(t) ==
    /\ hist.em'[t] # <<>>
    /\ hist.em'[t] # hist.em[t] \/ calls'[t] # calls[t]

\* The client can send a textDocument notification: _notify line 172 and _send
\* line 126 let it pass.
CanNotify == state \in {RUNNING, STARTING} /\ proc # None

\* C1: when a call of shutdown() returns, the state is STOPPED, the pending
\* table is empty, the child has exited and its handle is released.
C1_ShutdownLeavesStopped ==
    [][\A t \in Shutdowners :
          ShutdownReturns(t) =>
              /\ state' = STOPPED
              /\ pending' = {}
              /\ proc' = None
              /\ \A c \in Children : child'[c].st # "alive"]_vars

\* C2: when a call of _request returns or raises (result, error response, send
\* failure, timeout, cancellation at shutdown), its message id is not in the
\* pending table.
C2_RequestLeavesNoEntry ==
    [][\A t \in Requesters :
          RequestEnds(t) /\ res'[t] # "state_error" => rid'[t] \notin pending']_vars

C2_Witness ==
    \E t \in Requesters, o \in {"result", "rpc_error", "send_error", "timeout", "cancelled"} :
        /\ pc[t] = "idle"
        /\ res[t] = o
        /\ hist.outcome[rid[t]] = o
        /\ rid[t] \notin pending

\* C3: a shutdown() called on a RUNNING client with a live child has written
\* the shutdown request and the exit notification by the time it terminates
\* the child.
C3_HandshakeWritten ==
    \A t \in Shutdowners :
        (hist.entry[t] = RUNNING /\ pc[t] \in {"cl_wait", "cl_kill", "cl_lock", "done"})
            => {"shutdown", "exit"} \subseteq hist.sent[t]

\* C4: a shutdown() called in state STOPPING returns only when the state is
\* STOPPED, and a shutdown() called in state STOPPED returns at once and
\* changes nothing of the client.
C4_SecondShutdownWaits ==
    [][\A t \in Shutdowners :
          /\ (ShutdownReturns(t) /\ hist.entry'[t] = STOPPING) => state' = STOPPED
          /\ (ShutdownReturns(t) /\ hist.entry'[t] = STOPPED) =>
                 /\ pc[t] = "idle"
                 /\ UNCHANGED <<state, shutdown_event, proc, child, pending, fut, tasks,
                                loop, open_files, file_versions, file_states>>]_vars

\* C5: every request that was awaiting its response when shutdown() was called
\* ends with a cancellation.
C5_InflightCancelled ==
    \A t \in Shutdowners : \A i \in hist.inflight[t] :
        hist.outcome[i] \in {None, "cancelled"}

\* C6: a shutdown() that has been called eventually returns with state STOPPED.
C6_ShutdownTerminates ==
    \A t \in Shutdowners :
        (pc[t] \notin {"idle", "done"}) ~> (pc[t] = "done" /\ state = STOPPED)

\* C7: send_did_change on a URI that is not open completes: the call of
\* _manage_file_state it makes for action "open" eventually returns.
C7_ChangeOnClosedCompletes ==
    \A t \in DocTasks : (pc[t] = "dc_relock") ~> (pc[t] = "idle")

\* C8: every version written in a didChange for a URI is greater than every
\* version written for that URI before.
C8_VersionsAlwaysGrow ==
    [][\A t \in DocTasks :
          (Emits(t) /\ hist.em'[t][1].method = "textDocument/didChange") =>
              hist.em'[t][1].version > hist.everMax[hist.em'[t][1].uri]]_vars

\* C8, amended: every version written in a didChange for a URI is greater than
\* every version written for that URI since it was last added to open_files.
C8_VersionsGrowWhileOpen ==
    [][\A t \in DocTasks :
          (Emits(t) /\ hist.em'[t][1].method = "textDocument/didChange") =>
              hist.em'[t][1].version > hist.sinceOpen[hist.em'[t][1].uri]]_vars

C8_Witness ==
    \E t \in DocTasks :
        /\ hist.em[t] # <<>>
        /\ hist.em[t][1].method = "textDocument/didChange"
        /\ hist.em[t][1].version = 2
        /\ hist.everMax[hist.em[t][1].uri] = 3

\* C9: send_did_open on a URI that is open adds one to its version, replaces
\* the cached content, writes no didOpen, and writes a didChange with the new
\* version and the content whenever the client can send.
C9_OpenOnOpenIsChange ==
    [][\A t \in DocTasks :
          (CritStep(t) /\ arg'[t].op = "open" /\ arg'[t].uri \in open_files) =>
              LET u == arg'[t].uri
                  c == arg'[t].text
                  v == file_versions[u] + 1
              IN  /\ file_versions'[u] = v
                  /\ file_states'[u].content = c
                  /\ u \in open_files'
                  /\ hist.em'[t] \in {<<>>, <<DidChange(u, v, c)>>}
                  /\ CanNotify => hist.em'[t] = <<DidChange(u, v, c)>>]_vars

C9_Witness ==
    \E t \in DocTasks, u \in URIs :
        /\ arg[t].op = "open"
        /\ arg[t].uri = u
        /\ hist.em[t] = <<DidChange(u, 2, arg[t].text)>>
        /\ file_versions[u] = 2
        /\ file_states[u] = [content |-> arg[t].text, status |-> "open"]
        /\ hist.everMax[u] = 2

\* C10: send_did_close on a URI that is not open changes none of open_files,
\* file_versions, file_states and the pending table, writes nothing, and returns.
C10_CloseOnClosedIsNoOp ==
    [][\A t \in DocTasks :
          (CritStep(t) /\ arg'[t].op = "close" /\ arg'[t].uri \notin open_files) =>
              /\ UNCHANGED <<open_files, file_versions, file_states, pending>>
              /\ UNCHANGED <<inbox, outbuf>>
              /\ hist.em'[t] = <<>>
              /\ pc'[t] = "idle"
              /\ res'[t] = "ok"]_vars

C10_Witness ==
    \E t \in DocTasks :
        /\ pc[t] = "idle"
        /\ arg[t].op = "close"
        /\ res[t] = "ok"
        /\ hist.em[t] = <<>>
        /\ state = RUNNING
        /\ arg[t].uri \notin open_files

\* C11: after send_did_close on an open URI the client holds nothing for it: it
\* is not in open_files, has no version, has no cached content entry, and
\* read_file returns the empty string.
C11_CloseForgetsDocument ==
    [][\A t \in DocTasks :
          (CritStep(t) /\ arg'[t].op = "close" /\ arg'[t].uri \in open_files) =>
              LET u == arg'[t].uri
              IN  /\ u \notin open_files'
                  /\ file_versions'[u] = 0
                  /\ file_states'[u] = NoFile
                  /\ read_file(file_states', u) = EmptyString]_vars

\* C12: the notifications written to the child for a URI have the shape
\* (didOpen didChange* didClose)*: a didOpen is written only for a document the
\* child does not hold open, a didChange or didClose only for one it holds open.
C12_NotificationShape ==
    [][\A t \in DocTasks :
          Emits(t) =>
              LET m == hist.em'[t][1]
              IN  IF m.method = "textDocument/didOpen"
                  THEN hist.wire[m.uri] = "closed"
                  ELSE hist.wire[m.uri] = "open"]_vars

\* C13: a URI whose didClose is being sent (the close branch has changed the
\* state and its send has not completed) is not in open_files.
C13_ClosingNotOpen ==
    \A t \in DocTasks :
        (pc[t] \in {"dc_drain", "dc_drain_x"} /\ arg[t].op = "close")
            => arg[t].uri \notin open_files

C13_Witness ==
    \E t \in DocTasks :
        /\ pc[t] = "dc_drain"
        /\ arg[t].op = "close"
        /\ hist.em[t] = <<DidClose(arg[t].uri)>>
        /\ \E q \in DocTasks : pc[q] = "dc_lock" /\ arg[q].op = "open" /\ arg[q].uri = arg[t].uri

\* start() is called in this step.
StartCalled ==
    pc[Starter] = "idle" /\ (pc'[Starter] # "idle" \/ res'[Starter] # res[Starter])

\* A requester calls _request in this step.
RequestCalled(t) == pc[t] = "idle" /\ (pc'[t] # "idle" \/ res'[t] # res[t])

\* C14: start() in a state other than STOPPED raises LSPError and leaves the
\* state and the child as they are; a request other than initialize in a state
\* other than RUNNING raises LSPError, registers nothing and writes nothing.
C14_InvalidStateRejected ==
    [][/\ (StartCalled /\ state # STOPPED) =>
              /\ pc'[Starter] = "idle"
              /\ res'[Starter] = "state_error"
              /\ UNCHANGED <<state, proc, child, nspawn, tasks, pending>>
       /\ \A t \in Requesters :
              (RequestCalled(t) /\ state # RUNNING) =>
                  /\ pc'[t] = "idle"
                  /\ res'[t] = "state_error"
                  /\ UNCHANGED <<pending, fut, msg_id, inbox, outbuf, state>>]_vars

C14_Witness ==
    /\ state = RUNNING
    /\ pc[Starter] = "idle"
    /\ res[Starter] = "state_error"
    /\ \E t \in Requesters : pc[t] = "idle" /\ res[t] = "state_error" /\ rid[t] = 0

\* C15: the state changes only from STOPPED to STARTING, from STARTING to
\* RUNNING or STOPPED, from RUNNING to STOPPING, and from STOPPING to STOPPED.
C15_OnlyListedTransitions ==
    [][state' # state =>
          <<state, state'>> \in {<<STOPPED, STARTING>>, <<STARTING, RUNNING>>,
                                 <<STARTING, STOPPED>>, <<RUNNING, STOPPING>>,
                                 <<STOPPING, STOPPED>>}]_vars

\* C15, the worse of the unlisted transitions: start() never takes the state
\* from STOPPING to RUNNING.
C15_NoStoppingToRunning == [][~(state = STOPPING /\ state' = RUNNING)]_vars

\* start() raises the LSPError of line 78 in this step.
StartFails == pc[Starter] # "idle" /\ pc'[Starter] = "idle" /\ res'[Starter] = "LSPError"

\* C16: when start() raises because the spawn or the initialize handshake
\* failed, the state is STOPPED, there is no child handle, no receive loop is
\* running and the pending table is empty.
C16_FailedStartCleansUp ==
    [][StartFails =>
          /\ state' = STOPPED
          /\ proc' = None
          /\ pending' = {}
          /\ \A c \in Loops : loop'[c].pc \in {None, "done"}]_vars

\* C16 without the receive loop: state, child handle and pending table.
C16_FailedStartResets ==
    [][StartFails => (state' = STOPPED /\ proc' = None /\ pending' = {})]_vars

\* A client that is started, shut down and started again: start() twice, one
\* caller of shutdown().
NextRestart ==
    \/ StartActions(2)
    \/ ShutdownActions({"s1"})
    \/ LoopActions
    \/ ServerActions
    \/ EnvActions

SpecRestart == Init /\ [][NextRestart]_vars

\* The task of _response_loop for child c ends on this step without having
\* been cancelled.
LoopEnds(c) == loop[c].pc \in {"ready", "read"} /\ ~loop[c].cancel /\ loop'[c].pc = "done"

\* C17: STOPPED is re-entrant.  While a start() is in progress or has
\* succeeded, no call of shutdown() is in progress and the child is alive,
\* the receive loop of that child does not end: it is there to deliver the
\* responses, the one to initialize first.
C17_RestartedLoopRuns ==
    [][\A c \in Loops :
          (/\ proc = c
           /\ child[c].st = "alive"
           /\ state \in {STARTING, RUNNING}
           /\ \A t \in Shutdowners : pc[t] \in {"idle", "done"}) => ~LoopEnds(c)]_vars

\* A running client and two requesters whose requests are outstanding at the
\* same time; the server answers in any order, with a result or an error.
NextPair ==
    \/ RequestActions({"r1", "r2"})
    \/ \E c \in Loops : LoopRead(c)
    \/ ServerActions
    \/ EnvActions

SpecPair == InitRunning /\ [][NextPair]_vars

\* The same with a server that also sends requests of its own, as language
\* servers do (workspace/configuration, client/registerCapability).
NextServer ==
    \/ NextPair
    \/ \E c \in Children, i \in MsgIds : ServerRequest(c, i)

SpecServer == InitRunning /\ [][NextServer]_vars

\* Task t has a request of its own outstanding.
Outstanding(t) == pc[t] \in {"rq_lock", "rq_drain", "rq_drain_x", "rq_wait", "rq_fin"}

\* C18: the ids of outstanding requests are pairwise distinct, and a caller
\* gets the answer the server gave to the id of its own request: the result if
\* that response has no error, an LSPError for the server's error if it has.
C18_AnswerOfOwnId ==
    [][/\ \A t1, t2 \in Requesters :
             (t1 # t2 /\ Outstanding(t1)' /\ Outstanding(t2)') => rid'[t1] # rid'[t2]
       /\ \A t \in Requesters :
             /\ (RequestEnds(t) /\ res'[t] = "result") => hist.answer[rid[t]] = "result"
             /\ (RequestEnds(t) /\ res'[t] = "rpc_error") => hist.answer[rid[t]] = "error"
             /\ (RequestEnds(t) /\ hist.answer[rid[t]] = None)
                   => res'[t] \notin {"result", "rpc_error"}]_vars

\* The request with id i has timed out: wait_for gave up at line 154.
TimedOut(i) ==
    \/ hist.outcome[i] = "timeout"
    \/ \E t \in CallTasks : rid[t] = i /\ pc[t] = "rq_fin" /\ res[t] = "timeout"

\* _handle_message runs on this step for the loop of child c: on the frame just
\* read, or after its wait for the lock on the frame it kept.
Handles(c) ==
    /\ ~loop[c].cancel
    /\ \/ /\ loop[c].pc = "read"
          /\ outbuf[loop[c].src] # NoFrame
          /\ outbuf'[loop[c].src] = NoFrame
          /\ loop'[c].pc # "lock"
       \/ loop[c].pc = "lock" /\ loop'[c].pc # "lock"

Handled(c) == IF loop[c].pc = "read" THEN outbuf[loop[c].src] ELSE loop[c].msg

\* C19: a caller whose wait expires gets the timeout error and its entry is
\* gone; a message that comes later with the id of a request that timed out
\* completes no future and changes nothing of the client.
C19_LateResponseDiscarded ==
    [][/\ \A t \in Requesters :
             (pc[t] = "rq_wait" /\ pc'[t] # "rq_wait" /\ fut[rid[t]] = "pending")
                => (res'[t] = "timeout" /\ rid[t] \notin pending')
       /\ \A c \in Loops :
             (Handles(c) /\ TimedOut(Handled(c).id))
                => UNCHANGED <<state, shutdown_event, proc, msg_id, pending, fut, pc,
                               rid, res, open_files, file_versions, file_states>>]_vars

\* A request timed out, the server answered it all the same, and the receive
\* loop of the live child has read and handled that answer.
C19_Witness ==
    \E i \in MsgIds :
        /\ hist.outcome[i] = "timeout"
        /\ hist.answer[i] # None
        /\ proc # None /\ child[proc].st = "alive"
        /\ loop[proc].pc = "read"
        /\ \A c \in Children : outbuf[c].id # i

\* C20: a message with an id and a method, a request of the server's own, is
\* ignored: handling it completes no future and changes nothing of the client.
C20_ServerRequestIgnored ==
    [][\A c \in Loops :
          (Handles(c) /\ Handled(c).kind = "request")
             => UNCHANGED <<state, pending, fut, pc, rid, res>>]_vars

\* ------------------------------------------------- the frames, byte by byte
\* The units of the stream on the child's stdout.  A unit stands for the bytes
\* the reading code treats alike: the header name, the colon, a decimal number,
\* the line end, and the parts of a JSON body.
MaxBadFrames == 1    \* malformed frames the server writes
MaxPipe == 20        \* units the pipe holds before the server waits

CRLF == "\\r\\n"
ContentLength == "Content-Length"
Colon == ":"
Junk == "x"
IdTok(i) == "id" \o ToString(i)

\* A response as the server frames it: the header, the blank line, the body.
Body(i, k) == <<"{", IdTok(i), Colon, k, "}">>
JunkBody == <<"{", Junk, Colon, Junk, "}">>
BodyLen == Len(JunkBody)
Header(v) == <<ContentLength, Colon, v, CRLF, CRLF>>
GoodFrame(i, k) == Header(ToString(BodyLen)) \o Body(i, k)

\* The malformed frames: a Content-Length that is no number, a header without
\* Content-Length, a body shorter than announced, a body that is no JSON.
BadShapes == {"bad_length", "no_length", "short_body", "bad_json"}
BadFrame(shape) ==
    CASE shape = "bad_length" -> Header(Junk) \o JunkBody
      [] shape = "no_length" -> <<Junk, CRLF, CRLF>> \o JunkBody
      [] shape = "short_body" -> Header(ToString(BodyLen)) \o SubSeq(JunkBody, 1, BodyLen - 1)
      [] shape = "bad_json" -> Header(ToString(BodyLen)) \o <<"{", Junk, Colon, Junk, Junk>>

\* Index of the first unit of b that equals u, 0 if there is none.
Find(b, u) ==
    IF \E k \in 1..Len(b) : b[k] = u
    THEN CHOOSE k \in 1..Len(b) : b[k] = u /\ \A j \in 1..(k - 1) : b[j] # u
    ELSE 0

\* int(): the number a header value denotes, -1 where int() raises ValueError.
IntOf(v) ==
    IF Len(v) = 1 /\ \E n \in 0..9 : ToString(n) = v[1]
    THEN CHOOSE n \in 0..9 : ToString(n) = v[1]
    ELSE -1

\* _read_headers, lines 212-226, on the units b.  Lines are read up to the
\* first empty one; a line with a colon sets headers[key] = value, split at its
\* first colon and stripped.  h is the value of Content-Length so far, any
\* tells whether headers has an entry.  wait: the stream has no line end yet and
\* _read_line (228-242) is suspended in its read.
RECURSIVE ReadHeaders(_, _, _)
ReadHeaders(b, h, any) ==
    LET e == Find(b, CRLF)
        line == SubSeq(b, 1, e)
        rest == SubSeq(b, e + 1, Len(b))
        c == Find(line, Colon)
    IN  IF e = 0 THEN [wait |-> TRUE, h |-> h, any |-> any, rest |-> b]
        ELSE IF e = 1 THEN [wait |-> FALSE, h |-> h, any |-> any, rest |-> rest]
        ELSE IF c = 0 THEN ReadHeaders(rest, h, any)
        ELSE IF SubSeq(line, 1, c - 1) = <<ContentLength>>
             THEN ReadHeaders(rest, SubSeq(line, c + 1, e - 1), TRUE)
             ELSE ReadHeaders(rest, h, TRUE)

\* json.loads of _read_body, line 262, and what _handle_message sees: the
\* response the body denotes, NoFrame if it is no JSON or carries no id.
JsonLoads(d) ==
    IF /\ Len(d) = BodyLen
       /\ d[1] = "{" /\ d[3] = Colon /\ d[5] = "}"
       /\ d[4] \in {"result", "error"}
       /\ \E i \in MsgIds : IdTok(i) = d[2]
    THEN [id |-> CHOOSE i \in MsgIds : IdTok(i) = d[2], kind |-> d[4]]
    ELSE NoFrame

\* One pass of the while loop of _response_loop, lines 192-205, on the units b:
\* what is left of the stream and the message handled, if any.  No headers:
\* continue (line 194).  int() raising is caught at line 202 and the loop goes
\* on after the sleep, the body unread.  A length of 0 reads no body.
LoopPassOn(b) ==
    LET r == ReadHeaders(b, <<ToString(0)>>, FALSE)
        n == IntOf(r.h)
    IN  IF r.wait THEN [wait |-> TRUE, rest |-> b, msg |-> NoFrame]
        ELSE IF ~r.any \/ n <= 0 THEN [wait |-> FALSE, rest |-> r.rest, msg |-> NoFrame]
        ELSE IF Len(r.rest) < n THEN [wait |-> TRUE, rest |-> b, msg |-> NoFrame]
        ELSE [wait |-> FALSE, rest |-> SubSeq(r.rest, n + 1, Len(r.rest)),
              msg |-> JsonLoads(SubSeq(r.rest, 1, n))]

\* The server writes a well-formed response to a request it has received.
ServerWrites(i, k) ==
    /\ proc # None
    /\ child[proc].st = "alive" /\ child[proc].out
    /\ i \in inbox[proc]
    /\ Len(stdout) + 2 * BodyLen <= MaxPipe
    /\ Commit([Cur EXCEPT !.inbox[proc] = @ \ {i}, !.stdout = @ \o GoodFrame(i, k),
                           !.hist.answer[i] = k])

\* The server writes a malformed frame.
ServerGarbles(shape) ==
    /\ proc # None
    /\ child[proc].st = "alive" /\ child[proc].out
    /\ Cardinality(hist.frames) < MaxBadFrames
    /\ Len(stdout) + 2 * BodyLen <= MaxPipe
    /\ Commit([Cur EXCEPT !.stdout = @ \o BadFrame(shape), !.hist.frames = @ \cup {shape}])

\* The receive loop makes one pass over the units that have arrived: the reads
\* return, and _handle_message runs if a message was parsed (the lock is free:
\* nothing in this specification holds it across a suspension).
LoopPass ==
    /\ proc # None
    /\ loop[proc].pc = "read" /\ ~loop[proc].cancel
    /\ LoopCond(Cur)
    /\ LockFree(Cur)
    /\ LET r == LoopPassOn(stdout)
       IN  /\ ~r.wait
           /\ Commit(IF r.msg = NoFrame THEN [Cur EXCEPT !.stdout = r.rest]
                     ELSE HandleResponse([Cur EXCEPT !.stdout = r.rest], r.msg))

\* A running client with two requesters and a server that answers on the byte
\* stream and may garble a frame.
NextFrames ==
    \/ RequestActions({"r1", "r2"})
    \/ \E i \in MsgIds, k \in {"result", "error"} : ServerWrites(i, k)
    \/ \E shape \in BadShapes : ServerGarbles(shape)
    \/ LoopPass

SpecFrames == InitRunning /\ [][NextFrames]_vars

\* The units the receive loop takes off the stream on this step.
Consumed == SubSeq(stdout, 1, Len(stdout) - Len(stdout'))
Units(b) == {b[k] : k \in 1..Len(b)}

\* C21: a malformed frame is dropped and the loop goes on: when the loop takes
\* the body of a well-formed response to a pending request off the stream, it
\* completes that request with it.
C21_LaterResponsesDelivered ==
    [][Len(stdout') < Len(stdout) =>
          \A i \in pending :
              (fut[i] = "pending" /\ hist.answer[i] # None /\ IdTok(i) \in Units(Consumed))
                 => fut'[i] = hist.answer[i]]_vars

\* C21 for the malformed frames whose header announces the length their body
\* has: a body that is no JSON.
C21_BadJsonDropped ==
    [][(Len(stdout') < Len(stdout) /\ hist.frames \subseteq {"bad_json"}) =>
          \A i \in pending :
              (fut[i] = "pending" /\ hist.answer[i] # None /\ IdTok(i) \in Units(Consumed))
                 => fut'[i] = hist.answer[i]]_vars

\* C22: when the stdout of the child reaches EOF while the client is RUNNING,
\* the receive loop, which is waiting in its read, terminates.
C22_EofEndsLoop ==
    \A c \in Loops :
        (state = RUNNING /\ proc = c /\ loop[c].pc = "read" /\ Eof(Cur, c))
            ~> (loop[c].pc = "done")

\* C22, second half: when the receive loop of a RUNNING client ends, no request
\* is left pending.
C22_PendingCancelled ==
    [][\A c \in Loops :
          (LoopEnds(c) /\ state = RUNNING) => \A i \in pending' : fut'[i] # "pending"]_vars

\* --------------------------------- stream_requests / batch_requests, actions
\* results[index] = result, line 442.
Store_InArrivalOrder(results, completed, item) == [results EXCEPT ![completed + 1] = item.val]

Store(results, completed, item) == [results EXCEPT ![item.index] = item.val]

\* The for loop of lines 440-443 as far as the queue lets it run: get returns
\* at once while the queue holds an item.
RECURSIVE Drain(_)
Drain(q) ==
    IF q.queue = <<>> \/ q.completed = q.total THEN q
    ELSE Drain([q EXCEPT !.results = Store(q.results, q.completed, Head(q.queue)),
                         !.completed = @ + 1, !.queue = Tail(@)])

\* A call of stream_requests (lines 419-438) or batch_requests (483-494) with n
\* argument tuples: the semaphore, the worker tasks, and the caller's first
\* wait.  With no tuples both return the empty list.
StreamCall(mode, n, maxc) ==
    /\ ~Hung(Cur)
    /\ sched.mode = None
    /\ Commit([Cur EXCEPT !.sched =
          [NoSched EXCEPT !.mode = mode, !.total = n, !.maxc = maxc, !.sem = maxc,
                          !.wpc = [w \in Requesters |-> IF IndexOf(w) <= n THEN "new" ELSE None],
                          !.results = [i \in 1..n |-> NoneSlot],
                          !.pc = IF n = 0 THEN "returned"
                                 ELSE IF mode = "stream" THEN "get" ELSE "gather",
                          !.ret = IF n = 0 THEN "list" ELSE None]])

\* A worker task runs for the first time, in the order the tasks were created:
\* it enters the semaphore and calls the operation, or waits for the semaphore.
WorkerStart(w) ==
    /\ ~Hung(Cur)
    /\ sched.wpc[w] = "new"
    /\ \A j \in 1..(IndexOf(w) - 1) : sched.wpc[Workers[j]] # "new"
    /\ LET q == SemAcquire(sched, w)
           s == [Cur EXCEPT !.sched = q, !.res[w] = None]
       IN  \E ok \in BOOLEAN :
              Commit(IF q.wpc[w] = "running" THEN Request(s, w, ok) ELSE s)

\* A worker woken by a release takes the semaphore and calls the operation.
WorkerWoken(w) ==
    /\ ~Hung(Cur)
    /\ WorkersHaveRun(Cur)
    /\ sched.wpc[w] = "woken"
    /\ LET s == [Cur EXCEPT !.sched.sem = @ - 1, !.sched.wpc[w] = "running", !.res[w] = None]
       IN  \E ok \in BOOLEAN : Commit(Request(s, w, ok))

\* stream_requests: the caller is resumed from queue.get and takes what the
\* queue holds; after `total` items it goes on to the gather of line 462.
StreamGet ==
    /\ ~Hung(Cur)
    /\ WorkersHaveRun(Cur)
    /\ sched.mode = "stream" /\ sched.pc = "get"
    /\ sched.queue # <<>>
    /\ LET q == Drain(sched)
       IN  Commit([Cur EXCEPT !.sched = IF q.completed = q.total
                                         THEN [q EXCEPT !.pc = "gather"] ELSE q])

\* stream_requests, lines 462-463: every task is done, gather returns and the
\* results are returned.
StreamReturn ==
    /\ ~Hung(Cur)
    /\ WorkersHaveRun(Cur)
    /\ sched.mode = "stream" /\ sched.pc = "gather"
    /\ \A i \in 1..sched.total : sched.wpc[Workers[i]] \in {"done", "cancelled"}
    /\ Commit([Cur EXCEPT !.sched.pc = "returned", !.sched.ret = "list"])

\* batch_requests, line 494: gather returns the results of the tasks in the
\* order of its arguments once all are done; a cancelled task makes it raise
\* CancelledError at once.
BatchReturn ==
    /\ ~Hung(Cur)
    /\ WorkersHaveRun(Cur)
    /\ sched.mode = "batch" /\ sched.pc = "gather"
    /\ LET ws == {Workers[i] : i \in 1..sched.total}
       IN  \/ /\ \E w \in ws : sched.wpc[w] = "cancelled"
              /\ Commit([Cur EXCEPT !.sched.pc = "returned", !.sched.ret = "cancelled"])
           \/ /\ \A w \in ws : sched.wpc[w] = "done"
              /\ Commit([Cur EXCEPT !.sched.pc = "returned", !.sched.ret = "list",
                                     !.sched.results = [i \in 1..sched.total |-> sched.tres[Workers[i]]]])

MaxConcurrency == {1, 2}

\* A running client, one call of stream_requests or batch_requests, and a
\* caller of shutdown().
NextStream ==
    \/ \E mode \in {"stream", "batch"}, n \in 0..MaxArgs, maxc \in MaxConcurrency :
          StreamCall(mode, n, maxc)
    \/ \E w \in Requesters : WorkerStart(w) \/ WorkerWoken(w) \/ ReqDrained(w) \/ ReqWake(w)
    \/ StreamGet
    \/ StreamReturn
    \/ BatchReturn
    \/ ShutdownActions({"s1"})
    \/ LoopActions
    \/ ServerActions
    \/ EnvActions

SpecStream == InitRunning /\ [][NextStream]_vars

\* What slot i of the returned list has to hold: the result of the request
\* worker i made, None if that request raised.
Expected(i) ==
    IF res[Workers[i]] = "result" THEN ResultSlot(rid[Workers[i]]) ELSE NoneSlot

\* C23: the list that stream_requests or batch_requests returns has one slot
\* per argument tuple, and slot i holds the result of the operation on
\* args_list[i], None if it raised.
C23_ResultsInInputOrder ==
    sched.ret = "list" =>
        /\ Len(sched.results) = sched.total
        /\ \A i \in 1..sched.total : sched.results[i] = Expected(i)

\* stream_requests has returned two results that arrived in the reverse of the
\* input order.
C23_Witness ==
    /\ sched.mode = "stream" /\ sched.ret = "list" /\ sched.total = MaxArgs
    /\ res["r1"] = "result" /\ res["r2"] = "rpc_error"
    /\ hist.outcome[rid["r2"]] # None /\ rid["r1"] < rid["r2"]
    /\ sched.results[1].ok /\ ~sched.results[2].ok

\* The operations that have been started and have not finished: the requests of
\* the workers that are under way.
InFlight == {w \in Requesters : sched.wpc[w] # None /\ Outstanding(w)}

\* C24: during a call of stream_requests or batch_requests at most
\* max_concurrency operations are in flight.
C24_AtMostMaxConcurrency ==
    sched.mode # None => Cardinality(InFlight) <= sched.maxc

\* With max_concurrency 1 and two tuples, the first operation is in flight and
\* the second worker waits for the semaphore.
C24_Witness ==
    /\ sched.mode # None /\ sched.maxc = 1 /\ sched.total = MaxArgs
    /\ Cardinality(InFlight) = 1
    /\ \E w \in Requesters : sched.wpc[w] = "sem_wait"

\* Every worker task of the call has ended.
WorkersEnded == \A i \in 1..sched.total : sched.wpc[Workers[i]] \in {"done", "cancelled"}

\* C25: stream_requests returns once every operation has finished, however it
\* finished: the caller is never left in queue.get with the queue empty and no
\* worker left to put anything on it.
C25_StreamReturns ==
    ~(sched.mode = "stream" /\ sched.pc = "get" /\ sched.queue = <<>> /\ WorkersEnded)

\* ------------------------------------------------ get_refs_clean, actions
\* Lines 624-629 with every item kept, done or not.
Remaining_All(left, done) == left

\* base_lsp_client.py, lines 624-629: the items whose key is not in l_done.
Remaining(left, done) == SelectSeq(left, LAMBDA item : Key(item) \notin done)

\* Lines 632-732, once the while loop has ended: the edges are built from
\* results, shutdown is called on the client that `client` names, the
\* latest one started, and the function returns.
Return(h) == [h EXCEPT !.pc = "done", !.shut = @ \cup {h.clients}]

\* The for loop has ended, by exhaustion or by break: the remaining work is
\* recomputed and the while condition of line 609 is evaluated.
EndPass(h) ==
    LET l == Remaining(h.left, h.done)
    IN  IF l = <<>> THEN Return([h EXCEPT !.left = l, !.p = 0])
        ELSE [h EXCEPT !.left = l, !.p = 1, !.pc = "send"]

\* get_refs_clean up to its while loop, lines 586-609: get_all_symbols starts a
\* client and lists the n work items.
HvCall(n) ==
    /\ harv.pc = "idle"
    /\ LET l == SubSeq(WorkItems, 1, n)
           h == [NoHarv EXCEPT !.items = l, !.left = l, !.clients = 1]
       IN  Commit([Cur EXCEPT !.harv =
              IF n = 0 THEN Return(h) ELSE [h EXCEPT !.p = 1, !.pc = "send"]])

\* One turn of the for loop, lines 610-622: send_references for the item at
\* hand ends with outcome o.  A result is appended to results, its key is
\* marked done and the loop goes on;
\* an LSPError (the request timed out, or the server answered with an error)
\* makes get_all_symbols start a fresh client, and breaks.
HvRequest(o) ==
    /\ harv.pc = "send"
    /\ LET k == Key(harv.left[harv.p]) IN
       /\ o # "result" => harv.fails[k] < MaxFails
       /\ Len(harv.results) < MaxResults
       /\ Commit([Cur EXCEPT !.harv =
             IF o = "result"
             THEN LET h == [harv EXCEPT !.done = @ \cup {k}, !.results = Append(@, k)]
                  IN  IF harv.p < Len(harv.left) THEN [h EXCEPT !.p = @ + 1] ELSE EndPass(h)
             ELSE EndPass([harv EXCEPT !.fails[k] = @ + 1, !.clients = @ + 1,
                                       !.errored = IF o = "rpc_error" THEN @ \cup {k} ELSE @])])

\* The harvester and a server that lets requests time out or answers them with
\* an error, each item at most MaxFails times.
NextHarvest ==
    \/ \E n \in 0..Len(WorkItems) : HvCall(n)
    \/ \E o \in {"result", "timeout", "rpc_error"} : HvRequest(o)

SpecHarvest == Init /\ [][NextHarvest]_vars

\* The harvester is a sequential task that runs whenever it can.
FairHarvest == Init /\ [][NextHarvest]_vars /\ WF_vars(NextHarvest)

\* C26: after requests failed and fresh clients were started, the loop ends,
\* and it ends with the key of every work item marked done.
C26_HarvestCompletes ==
    <>[](harv.pc = "done" /\ \A i \in 1..Len(harv.items) : Key(harv.items[i]) \in harv.done)

\* The loop has ended with all three items done after a request for the second
\* one timed out and a fresh client was started.
C26_Witness ==
    /\ harv.pc = "done" /\ Len(harv.items) = Len(WorkItems)
    /\ harv.fails["k2"] > 0 /\ "k2" \notin harv.errored
    /\ harv.clients > 1
    /\ harv.done = KeySet

\* C27: a symbol whose references request was answered with an error is not
\* asked for again.
C27_ErrorNotRetried ==
    [][(harv.pc = "send" /\ harv' # harv) => Key(harv.left[harv.p]) \notin harv.errored]_vars

\* C37: no request is made for a work item whose key is in l_done, and when
\* the loop has ended results holds one entry for each work item.
C37_DoneNotRequestedAgain ==
    /\ [][(harv.pc = "send" /\ harv' # harv) => Key(harv.left[harv.p]) \notin harv.done]_vars
    /\ [](harv.pc = "done" =>
             /\ Len(harv.results) = Len(harv.items)
             /\ \A i \in 1..Len(harv.items) :
                   Cardinality({j \in 1..Len(harv.results) :
                                   harv.results[j] = Key(harv.items[i])}) = 1)

\* The loop has ended after three passes: the first item was done in the
\* first pass, the second failed twice, and the later passes asked only for
\* the items still missing.
C37_Witness ==
    /\ harv.pc = "done" /\ Len(harv.items) = Len(WorkItems)
    /\ harv.fails["k2"] = MaxFails /\ harv.fails["k1"] = 0
    /\ Len(harv.results) = Len(WorkItems)
    /\ harv.results[1] = "k1"

\* ------------------------------------------------ clients started and stopped
\* get_called, lines 902-914: get_client starts a client, the call graph is
\* analysed and the set of edges is returned; shutdown is not called.
GetCalled ==
    /\ harv.pc = "idle"
    /\ Commit([Cur EXCEPT !.harv = [NoHarv EXCEPT !.pc = "called", !.clients = 1]])

NextClients ==
    \/ NextHarvest
    \/ GetCalled

SpecClients == Init /\ [][NextClients]_vars

\* The clients the operation has started, in the order it started them.
Started == 1..harv.clients
\* get_refs_clean or get_called has returned.
Returned == harv.pc \in {"done", "called"}

\* C38: when a harvesting operation has returned, shutdown has been called on
\* every client it started.
C38_EveryClientShutDown == Returned => \A c \in Started : c \in harv.shut

\* What holds instead: get_refs_clean shuts down the client it started last,
\* and no other.
C38_LastClientShutDown == harv.pc = "done" => harv.shut = {harv.clients}

\* ------------------------------------------------ a notification that fails
\* The document task t takes the lock in this step and its notification is
\* refused by _notify (the call raises at once), or the write begins on a
\* pipe on which drain() raises (the call raises when it is scheduled next,
\* the lock held until then).
SendFails(t) ==
    /\ \/ pc[t] = "idle" /\ calls'[t] # calls[t]
       \/ pc[t] \in {"dc_lock", "dc_relock"}
    /\ \/ pc'[t] = "idle" /\ res'[t] = "LSPError"
       \/ pc'[t] = "dc_drain_x"

\* C39: a send_did_open or send_did_change whose notification cannot be sent
\* leaves open_files, file_versions and the cached content as they were.
C39_FailedSendLeavesState ==
    [][\A t \in DocTasks :
          (SendFails(t) /\ arg'[t].op \in {"open", "change"}) =>
              /\ open_files' = open_files
              /\ file_versions' = file_versions
              /\ file_states' = file_states]_vars

\* What holds instead: a send_did_open that finds the lock free and the client
\* neither RUNNING nor STARTING raises LSPError and leaves the lock free.
C39_RefusedOpenRaises ==
    [][\A t \in DocTasks :
          (/\ pc[t] = "idle" /\ calls'[t] # calls[t] /\ arg'[t].op = "open"
           /\ LockFree(Cur) /\ state \notin {RUNNING, STARTING}) =>
              pc'[t] = "idle" /\ res'[t] = "LSPError" /\ lockHolder' = lockHolder]_vars

\* ------------------------------------------------ the order of the handshake
\* The document task t writes a notification in this step.
DocWrites(t) == hist'.em[t] # hist.em[t] /\ hist'.em[t] # <<>>

\* start() has written `initialized` (line 123): it waits for the drain of that
\* write, or has set RUNNING after it.
InitializedWritten == state = RUNNING \/ pc[Starter] \in {"st_drain", "st_drain_x"}

\* C40: no textDocument notification is written before `initialized` has been
\* written.
C40_NothingBeforeInitialized ==
    [][\A t \in DocTasks : DocWrites(t) => InitializedWritten]_vars

\* What holds instead: a notification is written only in state STARTING or
\* RUNNING, to a child that start() has spawned and sent `initialize` to.
C40_NothingBeforeInitialize ==
    [][\A t \in DocTasks :
          DocWrites(t) => /\ state \in {STARTING, RUNNING}
                          /\ proc # None
                          /\ pc[Starter] \notin {"st_spawn", "rq_lock"}]_vars

\* ==================================================== the file watcher
\* run_watch.py main, lines 53-56, after start() has returned: the watcher task
\* is created and added to self._tasks; it runs up to its wait in awatch
\* (base_lsp_client.py line 95).
WatchStart ==
    /\ ~Hung(Cur)
    /\ ~watch.on
    /\ pc[Watcher] = "idle" /\ calls[Watcher] = 0
    /\ pc["s1"] = "idle"
    /\ Commit([Cur EXCEPT !.watch.on = TRUE, !.tasks = @ \cup {Watcher}])

\* _handle_file_change, lines 72-80: the client call an event is translated to.
EventOp(e) ==
    CASE e = "added" -> "open"
      [] e = "modified" -> "change"
      [] OTHER -> "close"

\* The watcher is suspended in awatch and has not been cancelled.
WatchIdle == watch.on /\ ~watch.cancel /\ pc[Watcher] = "idle"

\* watch_and_sync, lines 95-102, and _handle_file_change: awatch yields an event
\* on a file that passes _should_process_file while the client is not closing;
\* the file is read (c is its content) and the client call is made.
WatchEvent(e, u, c) ==
    /\ ~Hung(Cur)
    /\ WatchIdle
    /\ state \notin {STOPPING, STOPPED}
    /\ calls[Watcher] < MaxDocCalls
    /\ e = "deleted" <=> c = None
    /\ \E ok \in BOOLEAN :
          Commit(DocStart([Cur EXCEPT !.watch.ev = e], Watcher, EventOp(e), u, c, ok))

\* _handle_file_change, lines 76 and 81-82: read_text raises FileNotFoundError or
\* PermissionError; a warning is logged and the handler returns.
WatchUnreadable(e) ==
    /\ ~Hung(Cur)
    /\ WatchIdle
    /\ state \notin {STOPPING, STOPPED}
    /\ calls[Watcher] < MaxDocCalls
    /\ e # "deleted"
    /\ Commit([Cur EXCEPT !.watch.ev = e, !.calls[Watcher] = @ + 1,
                           !.res[Watcher] = "unreadable", !.hist.em[Watcher] = <<>>])

\* The task is done; its done callback discards it from self._tasks
\* (run_watch.py line 56).
WatchDone(s, o) ==
    [s EXCEPT !.pc[Watcher] = "ended", !.res[Watcher] = o, !.tasks = @ \ {Watcher}]

\* watch_and_sync, lines 96-97 and 99-100: awatch yields while the client is
\* closing; the loop is left and the task returns.
WatchBreak ==
    /\ ~Hung(Cur)
    /\ WatchIdle
    /\ state \in {STOPPING, STOPPED}
    /\ Commit(WatchDone(Cur, "returned"))

\* The task cancelled by _cancel_tasks (lsp_core.py line 585) gets CancelledError
\* where it is suspended; `except Exception` (base_lsp_client.py lines 84 and
\* 105) does not catch it; a wait for the lock is abandoned, and a lock held by
\* `async with` (lsp_core.py line 327) is released on the way out.
WatchCancelled ==
    /\ ~Hung(Cur)
    /\ watch.on /\ watch.cancel
    /\ pc[Watcher] \in {"idle", "dc_lock", "dc_relock", "dc_drain", "dc_drain_x"}
    /\ Commit(WatchDone(CASE pc[Watcher] = "idle" -> Cur
                          [] pc[Watcher] = "dc_lock" ->
                                IF Granted(Cur, Watcher) THEN Release(Cur)
                                ELSE Dequeue(Cur, Watcher)
                          [] pc[Watcher] = "dc_relock" -> Release(Dequeue(Cur, Watcher))
                          [] OTHER -> Release(Cur),
                        "cancelled"))

\* The watcher task.
WatchActions ==
    \/ WatchStart
    \/ \E e \in FsEvents, u \in {"u1"}, c \in {"a", None} : WatchEvent(e, u, c)
    \/ \E e \in FsEvents : WatchUnreadable(e)
    \/ WatchBreak
    \/ WatchCancelled
    \/ DocDrained(Watcher)

\* run_watch.py: a running client, the watcher task, and main's one call of
\* shutdown().  No other task keeps the lock across a suspension, so the
\* watcher never queues behind another task, and it has been cancelled by the
\* time _cleanup takes the lock.
NextWatch ==
    \/ WatchActions
    \/ ShutdownActions({"s1"})
    \/ SdLocked("s1")
    \/ LoopActions
    \/ EnvActions

SpecWatch == InitRunning /\ [][NextWatch]_vars

\* The event loop runs every task that is ready; nothing is assumed of the
\* filesystem, of the server or of the user.
WatchStep ==
    \/ WatchCancelled
    \/ DocDrained(Watcher)
    \/ SdGathered("s1") \/ SdLocked("s1")
    \/ LoopActions

FairWatch == SpecWatch /\ WF_vars(WatchStep)

\* The watcher is inside _handle_file_change.
Handling == watch.on /\ pc[Watcher] \notin {"idle", "ended"}

\* C28: the handler of every filesystem event returns (the event loop blocked
\* by a spinning response loop set aside).
C28_HandlerReturns == Handling ~> (~Handling \/ Hung(Cur))

\* _handle_file_change returns in this step from a client call that succeeded.
HandlerReturns ==
    /\ watch.on
    /\ pc[Watcher] # "idle" \/ calls'[Watcher] # calls[Watcher]
    /\ pc'[Watcher] = "idle"
    /\ res'[Watcher] = "ok"

\* C28: a handler that returns has written exactly one notification, of the
\* kind of its event: didOpen for added, didChange with the URI's new version
\* for modified, didClose for deleted (none if the file was not open).
C28_OneNotification ==
    [][HandlerReturns =>
          LET em == hist.em'[Watcher]
              e == watch'.ev
          IN  /\ e = "added" => Len(em) = 1 /\ em[1].method = "textDocument/didOpen"
              /\ e = "modified" =>
                    /\ Len(em) = 1 /\ em[1].method = "textDocument/didChange"
                    /\ em[1].version = file_versions'[em[1].uri]
              /\ e = "deleted" =>
                    /\ Len(em) <= 1
                    /\ Len(em) = 1 => em[1].method = "textDocument/didClose"]_vars

\* C29: in state STOPPING or STOPPED the watcher writes no notification, and
\* when shutdown() returns the watcher task that was created has ended.
C29_WatcherStopsWithClient ==
    [][/\ state \in {STOPPING, STOPPED} => ~Emits(Watcher)
       /\ (watch.on /\ ShutdownReturns("s1")) => pc'[Watcher] = "ended"]_vars

\* shutdown() has returned after it cancelled a watcher that had handled events.
C29_Witness ==
    /\ pc["s1"] = "done" /\ state = STOPPED
    /\ watch.on /\ watch.cancel /\ calls[Watcher] > 0
    /\ pc[Watcher] = "ended" /\ res[Watcher] = "cancelled"

\* ============================================================ get_client
\* The task that calls get_client makes its document calls as the document
\* task d1.
Opener == "d1"
MaxFiles == 2
Langs == {"py", "c"}

\* LANG_TO_LANGUAGE.get(lang, lang), base_lsp_client.py line 123: the language
\* id of a language, the language itself when the table has none.
LanguageId(lang) ==
    CASE lang = "py" -> "python"
      [] lang \in {"ts", "tsx"} -> "typescript"
      [] OTHER -> lang

\* What list_all_files yields (line 130): the matched files, each once, with
\* what read_text returns for it (line 131).
FileSeqs ==
    LET F == [uri : URIs, content : Contents \cup {EmptyString}]
    IN  {f \in UNION {[1..n -> F] : n \in 0..MaxFiles} :
            \A i, j \in 1..Len(f) : f[i].uri = f[j].uri => i = j}

\* Lines 132-133 with every file passed on, the empty ones too.
SkipEmpty_None(files, p) == p

\* Lines 130-133: the first file from position p on that is not empty, one past
\* the end if there is none.
RECURSIVE SkipEmpty(_, _)
SkipEmpty(files, p) ==
    IF p > Len(files) THEN p
    ELSE IF files[p].content = EmptyString THEN SkipEmpty(files, p + 1)
    ELSE p

\* Lines 130-138 from file p on, up to the next suspension: send_did_open of the
\* next file that is not empty, which raises or suspends in drain(); or, with
\* no file left, the return of the client.
BootLoop(s, p, ok) ==
    LET q == SkipEmpty(s.boot.files, p)
        s1 == [s EXCEPT !.boot.p = q]
    IN  IF q > Len(s.boot.files)
        THEN [s1 EXCEPT !.boot.pc = "returned"]
        ELSE LET f == s.boot.files[q]
                 s2 == DocStartLang(s1, Opener, "open", f.uri, f.content,
                                    LanguageId(s.boot.lang), ok)
             IN  IF s2.pc[Opener] = "idle"
                 THEN [s2 EXCEPT !.boot.pc = "raised"]
                 ELSE [s2 EXCEPT !.boot.pc = "open"]

\* get_client, lines 110-130, once start() has returned (line 119): the
\* language detected is lang, and the files are enumerated.
BootCall(lang, files) ==
    /\ ~Hung(Cur)
    /\ boot.pc = "idle"
    /\ pc[Opener] = "idle" /\ calls[Opener] = 0
    /\ state = RUNNING
    /\ \E ok \in BOOLEAN :
          Commit(BootLoop([Cur EXCEPT !.boot.lang = lang, !.boot.files = files], 1, ok))

\* send_did_open has drained, and the loop goes on with the next file; or
\* _send raised, and get_client raises.
BootDrained ==
    /\ ~Hung(Cur)
    /\ boot.pc = "open"
    /\ pc[Opener] \in {"dc_drain", "dc_drain_x"}
    /\ \E ok \in BOOLEAN :
          Commit(IF pc[Opener] = "dc_drain_x"
                 THEN [DocEnd(Release(Cur), Opener, "LSPError") EXCEPT !.boot.pc = "raised"]
                 ELSE BootLoop([DocEnd(Release(Cur), Opener, "ok") EXCEPT
                                   !.boot.sent = @ \o hist.em[Opener]],
                               boot.p + 1, ok))

\* A client that get_client has started, while get_client opens the files: no
\* other task has the client yet.
NextBootstrap ==
    \/ \E lang \in Langs, files \in FileSeqs : BootCall(lang, files)
    \/ BootDrained
    \/ \E c \in Loops : LoopRead(c)
    \/ EnvActions

SpecBootstrap == InitRunning /\ [][NextBootstrap]_vars

\* The didOpen that get_client owes to a file.
BootOpen(f) == DidOpen(f.uri, 1, f.content, LanguageId(boot.lang))

\* The positions of boot.sent that hold a message about URI u.
SentAbout(u) == {k \in 1..Len(boot.sent) : boot.sent[k].uri = u}

\* C30: when get_client has returned, every enumerated file that is not empty
\* was sent exactly one notification, a didOpen with version 1, its content and
\* the language id of the detected language; no notification was sent for an
\* empty file; and open_files holds the URIs of the non-empty files and no other.
C30_BootstrapOpensNonEmpty ==
    boot.pc = "returned" =>
        /\ \A i \in 1..Len(boot.files) :
              LET f == boot.files[i]
              IN  IF f.content = EmptyString
                  THEN SentAbout(f.uri) = {}
                  ELSE /\ Cardinality(SentAbout(f.uri)) = 1
                       /\ \A k \in SentAbout(f.uri) : boot.sent[k] = BootOpen(f)
        /\ open_files = {boot.files[i].uri : i \in {j \in 1..Len(boot.files) :
                                                      boot.files[j].content # EmptyString}}

\* get_client has returned after an empty file and a file that is not empty.
C30_Witness ==
    /\ boot.pc = "returned"
    /\ \E i, j \in 1..Len(boot.files) :
          /\ boot.files[i].content = EmptyString
          /\ boot.files[j].content # EmptyString
    /\ boot.sent # <<>>

\* ======================================================= the edge set
\* Paths and URIs as sequences of text units; a unit that holds a filter word
\* inside it ("tests", "test_") is kept whole.
Slash == "/"
Tab == "\t"
RootUri == <<"file://", "root">>
RelPaths ==
    {<<"a.py">>, <<"pkg", Slash, "b.py">>, <<"tests", Slash, "t.py">>, <<"test_", "a.py">>,
     <<"docs", Slash, "d.py">>, <<"pkg", Slash, "__init__.py">>, <<"cli.py">>}
Names == {"f", "g"}
EdgeLines == {0, 1}

\* `word in text` for a filter word of lines 666-669 and 708-715.
HasWord(unit, word) ==
    \/ unit = word
    \/ word = "test" /\ unit \in {"tests", "test_"}
Within(word, text) == \E k \in 1..Len(text) : HasWord(text[k], word)

\* uri[len_root_uri + 1:], lines 367 and 663.
Short(uri) == SubSeq(uri, Len(RootUri) + 2, Len(uri))
UriOf(rel) == RootUri \o <<Slash>> \o rel

\* The f-string of lines 467 and 721.
InvokeInfo(ref_short, line, fn, uri_short, func_line, func_name) ==
    ref_short \o <<Colon, ToString(line + 1), Colon, fn, Tab, "invoke", Tab>>
        \o uri_short \o <<Colon, ToString(func_line), Colon, func_name>>

\* get_refs lines 423-470, get_refs_clean lines 664-725: what one reference
\* (ref_uri, line), enclosed by the symbol fn (None if by none), to the symbol
\* func_name at (uri, func_line) makes of l_refs.
EdgesAfter(refs, clean, uri, func_line, func_name, ref_uri, line, fn) ==
    IF Within("tests", ref_uri) \/ Within("test_", ref_uri)
    THEN refs
    ELSE IF \E w \in {"test", "docs", "__init__.py", "cli.py"} : Within(w, Short(ref_uri))
    THEN refs
    ELSE IF fn = None
    THEN refs
    ELSE refs \cup {InvokeInfo(Short(ref_uri), line, fn, Short(uri),
                               IF clean THEN func_line + 1 ELSE func_line, func_name)}

MaxEdges == 1

\* One reference of one symbol's result is processed.
EdgeStep(clean, rel, func_line, func_name, ref_rel, line, fn) ==
    /\ Cardinality(l_refs) < MaxEdges
    /\ Commit([Cur EXCEPT !.l_refs = EdgesAfter(@, clean, UriOf(rel), func_line, func_name,
                                                UriOf(ref_rel), line, fn)])

NextEdges ==
    \E clean \in BOOLEAN, rel, ref_rel \in RelPaths, func_line, line \in EdgeLines,
       func_name \in Names, fn \in Names \cup {None} :
        EdgeStep(clean, rel, func_line, func_name, ref_rel, line, fn)

SpecEdges == Init /\ [][NextEdges]_vars

\* The two sides of an edge, and the path and the name of a side.
SideA(e) == SubSeq(e, 1, Find(e, Tab) - 1)
SideB(e) == SubSeq(e, Find(e, Tab) + 3, Len(e))
PathOf(side) == SubSeq(side, 1, Find(side, Colon) - 1)
NameOf(side) == side[Len(side)]
Filtered(path) == \E w \in {"test", "tests", "docs", "__init__.py", "cli.py"} : Within(w, path)

\* C31: every edge of l_refs ends in a name on both sides, and the path of
\* neither side matches a filter pattern.
C31_EdgesNamedAndUnfiltered ==
    \A e \in l_refs :
        /\ NameOf(SideA(e)) \in Names /\ NameOf(SideB(e)) \in Names
        /\ ~Filtered(PathOf(SideA(e))) /\ ~Filtered(PathOf(SideB(e)))

\* C31, the caller's side alone.
C31_CallerUnfiltered ==
    \A e \in l_refs : NameOf(SideA(e)) \in Names /\ ~Filtered(PathOf(SideA(e)))

\* ================================================= cursor resolution
\* The source of a symbol as a sequence of characters: the name (one unit),
\* another word, a blank, the comment and decorator marks, the line break.
NL == "\n"
Blank == " "
Hash == "#"
At == "@"
Other == "x"
SymName == "f"
Chars == {SymName, Other, Blank, Hash, At, NL}
MaxText == 3
Texts == UNION {[1..n -> Chars] : n \in 0..MaxText}
KindFunction == 12
KindMethod == 6
KindClass == 5
SeedKinds == {KindFunction, KindMethod, KindClass}

\* x[a:b] for a, b >= 0.
Slice(x, a, b) ==
    LET hi == IF b < Len(x) THEN b ELSE Len(x)
    IN  IF a + 1 > hi THEN <<>> ELSE SubSeq(x, a + 1, hi)

\* str.strip() of the left end, and of both ends.
RECURSIVE LStrip(_)
LStrip(x) == IF x # <<>> /\ Head(x) \in {Blank, NL} THEN LStrip(Tail(x)) ELSE x
RECURSIVE RStrip(_)
RStrip(x) ==
    IF x # <<>> /\ x[Len(x)] \in {Blank, NL} THEN RStrip(Slice(x, 0, Len(x) - 1)) ELSE x
Strip(x) == RStrip(LStrip(x))

\* x.split("\n")[0], and "\n".join(x.split("\n")[1:]).
FirstLine(x) == IF Find(x, NL) = 0 THEN x ELSE Slice(x, 0, Find(x, NL) - 1)
DropLine(x) == IF Find(x, NL) = 0 THEN <<>> ELSE Slice(x, Find(x, NL), Len(x))

\* get_all_symbols, lines 563-565: the lines in front that are comments or
\* decorators are dropped.
RECURSIVE CodeFrom(_)
CodeFrom(x) ==
    IF Strip(x) # <<>> /\ Head(Strip(x)) \in {Hash, At} THEN CodeFrom(DropLine(x)) ELSE x

\* check_real_func_char, lines 479-507, for the bare name: the column, or the
\* ValueError of lines 493 and 503.  It searches raw_line, the whole source of
\* the symbol, and has no use for _line but in its messages.
check_real_func_char(line, full_name, kind) ==
    LET found == Find(line, full_name) # 0
        col == IF found THEN Find(line, full_name) - 1 ELSE -1
        \* raw_line[real_func_char:], with real_func_char = -1 the last character
        rest == IF found THEN Slice(line, col, Len(line))
                ELSE IF line = <<>> THEN <<>> ELSE Slice(line, Len(line) - 1, Len(line))
    IN  IF kind \in {KindFunction, KindMethod}
        THEN IF Strip(rest) # <<>> /\ Head(Strip(rest)) = full_name
             THEN [raised |-> FALSE, value |-> col]
             ELSE [raised |-> TRUE, value |-> -1]
        ELSE [raised |-> FALSE, value |-> col]

\* get_all_symbols, lines 561-581, for one symbol of a seeding kind: its
\* parameters are appended to l_params, or it is skipped, or ValueError leaves
\* get_all_symbols.
ResolveSymbol(kind, line) ==
    /\ call = NoCall
    /\ LET r == check_real_func_char(line, SymName, kind)
       IN  Commit([Cur EXCEPT !.call =
                      [fn |-> "check_real_func_char", kind |-> kind, line |-> line, ret |-> r,
                       outcome |-> IF r.raised THEN "raised"
                                   ELSE IF r.value < 0 THEN "skipped" ELSE "appended"]])

NextCursor ==
    /\ call = NoCall
    /\ \E kind \in SeedKinds, line \in Texts : ResolveSymbol(kind, line)

SpecCursor == Init /\ [][NextCursor]_vars

\* The first line of the source that is not a comment or a decorator.
DefLine(line) == FirstLine(CodeFrom(line))

\* C32: cursor resolution returns a column >= 0 exactly when the name occurs on
\* the first line of the source that is no comment or decorator, and the column
\* is the index of the name in that line.
C32_ColumnIffNameOnDefLine ==
    call.fn = "check_real_func_char" =>
        LET onLine == Find(DefLine(call.line), SymName) # 0
            returned == ~call.ret.raised /\ call.ret.value >= 0
        IN  /\ returned <=> onLine
            /\ returned => call.ret.value = Find(DefLine(call.line), SymName) - 1

\* C32 for a source whose first line holds the name: the column is returned.
C32_NameOnFirstLine ==
    (call.fn = "check_real_func_char" /\ Find(FirstLine(call.line), SymName) # 0) =>
        /\ ~call.ret.raised
        /\ call.ret.value = Find(FirstLine(call.line), SymName) - 1

\* C33: a symbol of a seeding kind whose name is not found in its source is
\* skipped, and no error is raised.
C33_NameNotFoundSkipped ==
    (call.fn = "check_real_func_char" /\ Find(call.line, SymName) = 0) =>
        call.outcome = "skipped"

\* C33 for a class: skipped.
C33_ClassNotFoundSkipped ==
    (call.fn = "check_real_func_char" /\ Find(call.line, SymName) = 0 /\ call.kind = KindClass) =>
        call.outcome = "skipped"

\* ============================================ find_enclosing_function
KindVariable == 13
\* Symbols without children, as documentSymbol returns them.
LeafSyms ==
    {s \in [name : Names, kind : {KindFunction, KindVariable}, start : 0..1, end : 1..2,
            children : {<<>>}] : s.start <= s.end}
\* Symbol lists: flat ones of up to two symbols in any order, and one symbol
\* with one child inside its range.
SymLists ==
    UNION {[1..n -> LeafSyms] : n \in 0..2}
        \cup UNION {{<<[p EXCEPT !.children = <<c>>]>> :
                        c \in {l \in LeafSyms : p.start <= l.start /\ l.end <= p.end}} :
                    p \in LeafSyms}
QueryLines == 0..2

\* _search_symbols, lines 48-63: result is overwritten by every symbol of a
\* seeding kind whose range holds the line, and by what the children give.
RECURSIVE SearchSymbols(_, _, _)
SearchSymbols(syms, line, result) ==
    IF syms = <<>> THEN result
    ELSE LET symbol == Head(syms)
             own == IF symbol.kind \in SeedKinds /\ symbol.start <= line /\ line <= symbol.end
                    THEN symbol.name ELSE result
             nested == IF symbol.children # <<>>
                       THEN SearchSymbols(symbol.children, line, None) ELSE None
         IN  SearchSymbols(Tail(syms), line, IF nested # None THEN nested ELSE own)

\* find_enclosing_function, lines 44-69.
find_enclosing_function(symbols, line) == SearchSymbols(symbols, line, None)

FindEnclosing(symbols, line) ==
    /\ call = NoCall
    /\ Commit([Cur EXCEPT !.call = [fn |-> "find_enclosing_function", symbols |-> symbols,
                                    line |-> line,
                                    ret |-> find_enclosing_function(symbols, line)]])

NextEnclosing ==
    /\ call = NoCall
    /\ \E symbols \in SymLists, line \in QueryLines : FindEnclosing(symbols, line)

SpecEnclosing == Init /\ [][NextEnclosing]_vars

\* The symbols of a list and their children.
AllSyms(symbols) ==
    {symbols[i] : i \in 1..Len(symbols)}
        \cup UNION {{symbols[i].children[j] : j \in 1..Len(symbols[i].children)} :
                       i \in 1..Len(symbols)}
\* The symbols of a seeding kind whose range holds the line, and the innermost
\* of them: those whose range lies within the range of every other.
Holding(symbols, line) ==
    {s \in AllSyms(symbols) : s.kind \in SeedKinds /\ s.start <= line /\ line <= s.end}
Innermost(symbols, line) ==
    {s \in Holding(symbols, line) :
        \A o \in Holding(symbols, line) : o.start <= s.start /\ s.end <= o.end}

\* C34: find_enclosing_function returns the name of the innermost symbol of a
\* seeding kind whose range holds the line, and None when no symbol holds it.
C34_ReturnsInnermost ==
    call.fn = "find_enclosing_function" =>
        IF Holding(call.symbols, call.line) = {}
        THEN call.ret = None
        ELSE Innermost(call.symbols, call.line) # {} =>
                \E s \in Innermost(call.symbols, call.line) : call.ret = s.name

\* C34 for a list in document order (no symbol starts before one listed
\* earlier, and of two that start together the outer comes first).
DocumentOrder(symbols) ==
    \A i, j \in 1..Len(symbols) :
        i < j => \/ symbols[i].start < symbols[j].start
                 \/ symbols[i].start = symbols[j].start /\ symbols[j].end <= symbols[i].end
C34_InnermostInDocumentOrder ==
    (call.fn = "find_enclosing_function" /\ DocumentOrder(call.symbols)
        /\ \A i \in 1..Len(call.symbols) : DocumentOrder(<<call.symbols[i]>> \o call.symbols[i].children)) =>
        IF Holding(call.symbols, call.line) = {}
        THEN call.ret = None
        ELSE Innermost(call.symbols, call.line) # {} =>
                \E s \in Innermost(call.symbols, call.line) : call.ret = s.name

\* ================================================= extract_symbol_code
MaxContent == 4
FileTexts == UNION {[1..n -> {SymName, Other, NL}] : n \in 0..MaxContent}
Positions == 0..2

\* str.splitlines(): the lines of a text; a line break at the end opens no line.
RECURSIVE SplitLines(_)
SplitLines(x) ==
    IF x = <<>> THEN <<>>
    ELSE IF Find(x, NL) = 0 THEN <<x>>
    ELSE <<Slice(x, 0, Find(x, NL) - 1)>> \o SplitLines(Slice(x, Find(x, NL), Len(x)))

\* "\n".join(lines).
RECURSIVE JoinLines(_)
JoinLines(ls) ==
    IF ls = <<>> THEN <<>>
    ELSE IF Len(ls) = 1 THEN ls[1]
    ELSE ls[1] \o <<NL>> \o JoinLines(Tail(ls))

\* extract_symbol_code that cuts nothing from a range of several lines.
extract_symbol_code_WholeLines(content, sl, sc, el, ec, strip) ==
    LET lines == SplitLines(content)
    IN  IF ~(sl < Len(lines) /\ el < Len(lines)) THEN <<>>
        ELSE IF sl = el THEN (IF strip THEN Slice(lines[sl + 1], sc, ec) ELSE lines[sl + 1])
        ELSE IF sl > el THEN <<>>
        ELSE JoinLines(SubSeq(lines, sl + 1, el + 1))

\* extract_symbol_code, lines 22-53, for a symbol whose range is
\* (sl, sc)..(el, ec).
extract_symbol_code(content, sl, sc, el, ec, strip) ==
    LET lines == SplitLines(content)
    IN  IF ~(sl < Len(lines) /\ el < Len(lines)) THEN <<>>
        ELSE IF sl = el THEN (IF strip THEN Slice(lines[sl + 1], sc, ec) ELSE lines[sl + 1])
        ELSE IF sl > el THEN <<>>
        ELSE LET code_lines == SubSeq(lines, sl + 1, el + 1)
                 n == Len(code_lines)
                 cut == [i \in 1..n |->
                            IF i = 1 THEN Slice(code_lines[1], sc, Len(code_lines[1]))
                            ELSE IF i = n THEN Slice(code_lines[n], 0, ec)
                            ELSE code_lines[i]]
             IN  JoinLines(IF strip THEN cut ELSE code_lines)

ExtractCode(content, sl, sc, el, ec, strip) ==
    /\ call = NoCall
    /\ Commit([Cur EXCEPT !.call =
                  [fn |-> "extract_symbol_code", content |-> content, sl |-> sl, sc |-> sc,
                   el |-> el, ec |-> ec, strip |-> strip,
                   ret |-> extract_symbol_code(content, sl, sc, el, ec, strip)]])

NextExtract ==
    /\ call = NoCall
    /\ \E content \in FileTexts, sl, sc, el, ec \in Positions, strip \in BOOLEAN :
          ExtractCode(content, sl, sc, el, ec, strip)

SpecExtract == Init /\ [][NextExtract]_vars

\* Line i (from 0) of a text, and the characters of a line from column a up to
\* column b, b left out.
LineAt(content, i) == SplitLines(content)[i + 1]
Columns(l, a, b) == [k \in 1..(IF b < Len(l) THEN (IF b > a THEN b - a ELSE 0)
                                ELSE (IF Len(l) > a THEN Len(l) - a ELSE 0)) |-> l[a + k]]

\* C35: within one line, strip gives the characters [start_char, end_char) and
\* no strip the whole line; over several lines every line from start to end is
\* kept, joined by line breaks, strip cutting the first line before start_char
\* and the last from end_char on; a start or end line outside the content
\* gives the empty string.
C35_ExtractSymbolCode ==
    call.fn = "extract_symbol_code" =>
        LET n == Len(SplitLines(call.content))
            first == LineAt(call.content, call.sl)
            last == LineAt(call.content, call.el)
        IN  /\ (call.sl >= n \/ call.el >= n) => call.ret = <<>>
            /\ (call.sl < n /\ call.el = call.sl) =>
                  call.ret = IF call.strip THEN Columns(first, call.sc, call.ec) ELSE first
            /\ (call.el < n /\ call.sl < call.el) =>
                  call.ret =
                      (IF call.strip THEN Columns(first, call.sc, Len(first)) ELSE first)
                      \o <<NL>>
                      \o (IF call.el = call.sl + 2
                          THEN LineAt(call.content, call.sl + 1) \o <<NL>> ELSE <<>>)
                      \o (IF call.strip THEN Columns(last, 0, call.ec) ELSE last)

\* A range of two lines was extracted with strip, and characters were cut at
\* both ends.
C35_Witness ==
    /\ call.fn = "extract_symbol_code"
    /\ call.strip /\ call.sl < call.el /\ call.el < Len(SplitLines(call.content))
    /\ call.sc > 0 /\ call.ec < Len(LineAt(call.content, call.el))
    /\ Len(LineAt(call.content, call.sl)) > call.sc
    /\ call.ret # <<>>

\* ============================================================= traverse
\* One file a.py with the functions f (line 0) and g (line 2).  The server's
\* answer to references on a function is the set of its callers: functions,
\* which refer to it from the line after their own, and None for a reference
\* outside every function (line 4).
MaxDepth == 3
SrcFile == <<"a.py">>
FuncLine(n) == IF n = "f" THEN 0 ELSE 2
RefLine(c) == IF c = None THEN 4 ELSE FuncLine(c) + 1
CallGraphs == [Names -> SUBSET (Names \cup {None})]
\* str() of a name or of None.
PyStr(n) == IF n = None THEN "None" ELSE n

\* _traverse, lines 736-743 and 752-758: the symbols a list of start entities
\* selects: all of them for an empty list, by name for bare names, by
\* "path:name" for entities of the form "path:line:name".
Selected(start) ==
    IF start = {} THEN Names
    ELSE IF \E a \in start : Find(a, Colon) # 0
    THEN {n \in Names : \E a \in start :
             SrcFile \o <<Colon, n>> = PathOf(a) \o <<Colon, NameOf(a)>>}
    ELSE {n \in Names : <<n>> \in start}

\* _traverse, lines 735-858: the edges of one level.
Traverse1(callers, start) ==
    UNION {{InvokeInfo(SrcFile, RefLine(c), PyStr(c), SrcFile, FuncLine(n), n) :
               c \in callers[n]} : n \in Selected(start)}

\* traverse, lines 877-882 and 886-891: the edges of a level are added to
\* l_refs, and the callers that are not "None" to todo.
Absorb(tr, edges) ==
    [tr EXCEPT !.refs = @ \cup edges,
               !.todo = @ \cup {SideA(e) : e \in {x \in edges : NameOf(SideA(x)) # "None"}},
               !.levels = @ + 1]

\* A sequence of the members of a set: list(l_refs).
RECURSIVE ListOf(_)
ListOf(S) == IF S = {} THEN <<>> ELSE LET x == CHOOSE y \in S : TRUE IN <<x>> \o ListOf(S \ {x})

\* The loop of lines 884-892 without the increment of line 892.
AfterLevel_NoIncrement(tr) ==
    IF tr.depth >= tr.current_depth
    THEN [tr EXCEPT !.pc = "level"]
    ELSE [tr EXCEPT !.pc = "returned", !.ret = ListOf(tr.refs)]

\* traverse, lines 884 and 894-895: another level, or the return of the list.
AfterLevel(tr) ==
    IF tr.depth >= tr.current_depth + 1
    THEN [tr EXCEPT !.pc = "level", !.current_depth = @ + 1]
    ELSE [tr EXCEPT !.pc = "returned", !.ret = ListOf(tr.refs)]

\* traverse, lines 861-877, direction "downstream": up to the first level.
TraverseCall(callers, start, depth) ==
    /\ trav.pc = "idle"
    /\ Commit([Cur EXCEPT !.trav =
                  IF depth >= 1
                  THEN [NoTrav EXCEPT !.pc = "level", !.callers = callers, !.start = start,
                                      !.depth = depth, !.current_depth = 1]
                  ELSE [NoTrav EXCEPT !.pc = "returned", !.callers = callers,
                                      !.start = start, !.depth = depth,
                                      !.current_depth = 1]])

\* One call of _traverse and the loop over its edges: line 877 with
\* start_entities, line 885 with todo.
TraverseLevel ==
    /\ trav.pc = "level"
    /\ LET edges == Traverse1(trav.callers,
                              IF trav.current_depth = 1 THEN trav.start ELSE trav.todo)
       IN  Commit([Cur EXCEPT !.trav = AfterLevel(Absorb(trav, edges))])

NextTraverse ==
    \/ /\ trav.pc = "idle"
       /\ \E callers \in CallGraphs, start \in {{}, {<<"f">>}, {<<"g">>}}, depth \in 0..MaxDepth :
             TraverseCall(callers, start, depth)
    \/ TraverseLevel

SpecTraverse == Init /\ [][NextTraverse]_vars
\* The event loop runs the task that called traverse.
FairTraverse == SpecTraverse /\ WF_vars(TraverseLevel)

====
